---- MODULE Spec2Model ----
(***************************************************************************)
(* Record linkage and field cleaning of the lake-survey pipeline.          *)
(*                                                                         *)
(* Text is modelled as a sequence of one-character strings, so that the    *)
(* conversions of the code (strip, lower, spreadsheet unwrapping, numeric  *)
(* parsing, key formatting) are computed character by character.  The      *)
(* pandas missing value and Python's None are the reserved one-element     *)
(* sequences NaN and None, which no text can equal.                        *)
(***************************************************************************)
EXTENDS Integers, Sequences, FiniteSets, TLC

VARIABLES
    script,             \* which program of the repository this run executes
    pc,                 \* position of that program
    call,               \* unit harness: arguments a pure function is applied to
    ret,                \* unit harness: what the function returned
    primary_file,       \* attached_assets/fisheries_lake_data.csv
    metadata_file,      \* attached_assets/LAKE_METADATA_2024.csv
    sentinel_file,      \* attached_assets/SENTINEL_lake_data.xls
    border_file,        \* attached_assets/BORDER_lake_data.xls
    min_lake_size_acres,
    require_coordinates,
    lakes,              \* list returned by process_lake_metadata
    name_to_map_id_lookup,
    catch_file,         \* GLOBAL_CATCH_FILE.CSV: state and the rows read so far
    length_file,        \* MEGA_LENGTH_CSV_FILE.CSV: state and the rows read so far
    processed_data,     \* process_fish_data: local dict being filled
    unlinked_records,   \* process_fish_data: local counter
    resolved,           \* process_fish_data: per row read, map_id_key and the lookup that set it
    catch_data,         \* main: result of process_fish_catch_data
    length_data,        \* main: result of process_fish_length_data
    species_data,       \* main: result of create_species_reference
    disk,               \* data/*.json artifacts
    first_run,          \* what the previous run of main() left, when there was one
    session_state       \* src/main.py: st.session_state of the viewer

NaN  == <<"NaN">>
None == <<"None">>

-----------------------------------------------------------------------------
(* Text helpers: str.strip(), str.lower(), str.startswith/endswith.        *)

LowerChar(c) ==
    LET UpperAlpha == <<"A","B","C","D","E","F","G","H","I","J","K","L","M",
                        "N","O","P","Q","R","S","T","U","V","W","X","Y","Z">>
        LowerAlpha == <<"a","b","c","d","e","f","g","h","i","j","k","l","m",
                        "n","o","p","q","r","s","t","u","v","w","x","y","z">>
    IN  IF \E i \in 1..26 : UpperAlpha[i] = c
        THEN LowerAlpha[CHOOSE i \in 1..26 : UpperAlpha[i] = c]
        ELSE c

Lower(s) == [i \in 1..Len(s) |-> LowerChar(s[i])]

RECURSIVE LStrip(_)
LStrip(s) == IF s # <<>> /\ Head(s) = " " THEN LStrip(Tail(s)) ELSE s

RECURSIVE RStrip(_)
RStrip(s) ==
    IF s # <<>> /\ s[Len(s)] = " " THEN RStrip(SubSeq(s, 1, Len(s) - 1)) ELSE s

Strip(s) == RStrip(LStrip(s))

StartsWith(s, p) == Len(s) >= Len(p) /\ SubSeq(s, 1, Len(p)) = p
EndsWith(s, p) == Len(s) >= Len(p) /\ SubSeq(s, Len(s) - Len(p) + 1, Len(s)) = p

Truthy(v) == v # None /\ v # NaN /\ v # <<>>

-----------------------------------------------------------------------------
(* get_cleaned_id and normalize_name.                                      *)

get_cleaned_id(raw_id_val) ==
    IF raw_id_val = NaN THEN None
    ELSE LET cleaned_id == Strip(raw_id_val)
             unwrapped ==
                 IF StartsWith(cleaned_id, <<"=", "\"">>) /\ EndsWith(cleaned_id, <<"\"">>)
                 THEN SubSeq(cleaned_id, 3, Len(cleaned_id) - 1)
                 ELSE cleaned_id
         IN  Strip(unwrapped)

\* mutant: the name is trimmed but its case is kept
normalize_nameKeepCase(name) ==
    IF name = NaN \/ name = <<>> THEN None
    ELSE Strip(name)

normalize_name(name) ==
    IF name = NaN \/ name = <<>> THEN None
    ELSE Strip(Lower(name))

-----------------------------------------------------------------------------
(* Numeric parsing.  A parsed number is [t, neg, i, f]: t is "num", "inf"  *)
(* or "nan"; i the integer part; f the digits after the decimal point.     *)

Digits == <<"0","1","2","3","4","5","6","7","8","9">>
IsDigit(c) == \E d \in 1..10 : Digits[d] = c
DigitVal(c) == (CHOOSE d \in 1..10 : Digits[d] = c) - 1

FNan == [t |-> "nan", neg |-> FALSE, i |-> 0, f |-> <<>>]
Raised == [t |-> "raised", neg |-> FALSE, i |-> 0, f |-> <<>>]
FInf(neg) == [t |-> "inf", neg |-> neg, i |-> 0, f |-> <<>>]
FNum(neg, i, f) == [t |-> "num", neg |-> neg, i |-> i, f |-> f]

AllDigits(s) == \A k \in 1..Len(s) : IsDigit(s[k])

RECURSIVE NatOfDigits(_)
NatOfDigits(s) ==
    IF s = <<>> THEN 0
    ELSE 10 * NatOfDigits(SubSeq(s, 1, Len(s) - 1)) + DigitVal(s[Len(s)])

RECURSIVE DropTrailingZeros(_)
DropTrailingZeros(s) ==
    IF s # <<>> /\ s[Len(s)] = "0" THEN DropTrailingZeros(SubSeq(s, 1, Len(s) - 1))
    ELSE s

DotAt(s) == IF \E k \in 1..Len(s) : s[k] = "."
            THEN CHOOSE k \in 1..Len(s) : s[k] = "." /\ \A j \in 1..(k - 1) : s[j] # "."
            ELSE 0

\* The unsigned body of a float literal: digits, digits.digits, digits. or .digits
ParseUnsigned(s, neg) ==
    LET low == Lower(s)
        d == DotAt(s)
        ip == IF d = 0 THEN s ELSE SubSeq(s, 1, d - 1)
        fp == IF d = 0 THEN <<>> ELSE SubSeq(s, d + 1, Len(s))
    IN  IF low = <<"i","n","f">> \/ low = <<"i","n","f","i","n","i","t","y">> THEN FInf(neg)
        ELSE IF low = <<"n","a","n">> THEN FNan
        ELSE IF s # <<>> /\ AllDigits(ip) /\ AllDigits(fp) /\ (ip # <<>> \/ fp # <<>>)
             THEN FNum(neg /\ (NatOfDigits(ip) # 0 \/ DropTrailingZeros(fp) # <<>>),
                       NatOfDigits(ip), DropTrailingZeros(fp))
        ELSE Raised

\* Python float(text): surrounding blanks and one sign are accepted;
\* anything else raises ValueError (Raised).
PyFloat(text) ==
    LET s == Strip(text)
    IN  IF s # <<>> /\ Head(s) = "-" THEN ParseUnsigned(Tail(s), TRUE)
        ELSE IF s # <<>> /\ Head(s) = "+" THEN ParseUnsigned(Tail(s), FALSE)
        ELSE ParseUnsigned(s, FALSE)

\* pd.to_numeric(text, errors='coerce'): what does not parse becomes NaN.
to_numeric(text) ==
    IF text = None \/ text = NaN THEN FNan
    ELSE LET v == PyFloat(text) IN IF v = Raised THEN FNan ELSE v

\* pd.notna on a cell (text or missing) and on a parsed number.
notna(v) == v # NaN /\ v # None
num_notna(v) == v.t # "nan"

\* int(x): truncation toward zero.  It raises on an infinity
\* (OverflowError) and on a NaN (ValueError).
IntRaises(v) == v.t # "num"
PyInt(v) == IF v.neg THEN 0 - v.i ELSE v.i

RECURSIVE NatToStr(_)
NatToStr(n) ==
    IF n < 10 THEN <<Digits[n + 1]>>
    ELSE NatToStr(n \div 10) \o <<Digits[(n % 10) + 1]>>

\* format(n, "d")
IntToStr(n) == IF n < 0 THEN <<"-">> \o NatToStr(0 - n) ELSE NatToStr(n)

\* mutant: the sub-basin code is written without zero fill
Fmt02dUnpadded(n) == IntToStr(n)

\* format(n, "02d"): zero fill to a minimum width of 2, the sign counts.
Fmt02d(n) ==
    LET plain == IntToStr(n)
    IN  IF Len(plain) >= 2 THEN plain ELSE <<"0">> \o plain

-----------------------------------------------------------------------------
(* Canonical key (map_id) of a primary record, process_lake_metadata.      *)

MapIdOf(raw_dow_primary, raw_dow_sub_basin) ==
    IF notna(raw_dow_primary) /\ notna(raw_dow_sub_basin)
    THEN LET num_dow_primary == to_numeric(get_cleaned_id(raw_dow_primary))
             num_dow_sub_basin == to_numeric(get_cleaned_id(raw_dow_sub_basin))
         IN  IF num_notna(num_dow_primary) /\ num_notna(num_dow_sub_basin)
             THEN IF IntRaises(num_dow_primary) \/ IntRaises(num_dow_sub_basin)
                  THEN None
                  ELSE IntToStr(PyInt(num_dow_primary)) \o Fmt02d(PyInt(num_dow_sub_basin))
             ELSE None
    ELSE None

-----------------------------------------------------------------------------
(* Values stored in the output records: None, int and float share one      *)
(* shape so that they can be compared.                                     *)

JNull == [t |-> "null", neg |-> FALSE, i |-> 0, f |-> <<>>]
JInt(n) == [t |-> "int", neg |-> n < 0, i |-> IF n < 0 THEN 0 - n ELSE n, f |-> <<>>]

\* Python dicts are functions; d.get(k) and d[k] = v.
EmptyDict == [k \in {} |-> JNull]
Get(d, k) == IF k \in DOMAIN d THEN d[k] ELSE None
Put(d, k, v) == [x \in (DOMAIN d) \cup {k} |-> IF x = k THEN v ELSE d[x]]

\* round(2) of a float column: half-to-even on the decimal digits.
Round2(v) ==
    IF v.t # "num" \/ Len(v.f) <= 2 THEN v
    ELSE LET kept == v.i * 100 + NatOfDigits(SubSeq(v.f, 1, 2))
             rest == SubSeq(v.f, 3, Len(v.f))
             half == rest[1] = "5" /\ \A k \in 2..Len(rest) : rest[k] = "0"
             up == IF half THEN kept % 2 = 1 ELSE DigitVal(rest[1]) >= 5
             r == IF up THEN kept + 1 ELSE kept
             frac == <<Digits[((r % 100) \div 10) + 1], Digits[(r % 10) + 1]>>
         IN  FNum(v.neg /\ r # 0, r \div 100, DropTrailingZeros(frac))

\* value >= bound for a parsed number and a positive integer bound
NumGe(v, bound) ==
    \/ v.t = "inf" /\ ~v.neg
    \/ v.t = "num" /\ ~v.neg /\ v.i >= bound

\* a float cell of a lake entry: NaN becomes None
LakeValue(v) == IF v.t = "nan" THEN JNull ELSE v

-----------------------------------------------------------------------------
(* process_lake_metadata                                                   *)

\* pd.merge(df, metadata_df, on='FISHERIES_WATERBODY_ID', how='left') and
\* the fillna of COUNTY_NAME: the left rows in order, each once per
\* matching right row, or once with the filler when none matches.
RECURSIVE MatchesOf(_, _)
MatchesOf(row, meta_rows) ==
    IF meta_rows = <<>> THEN <<>>
    ELSE LET m == Head(meta_rows)
             rest == MatchesOf(row, Tail(meta_rows))
         IN  IF m.FISHERIES_WATERBODY_ID = row.FISHERIES_WATERBODY_ID
             THEN <<[row EXCEPT !.COUNTY_NAME =
                        IF m.COUNTY_NAME = "NaN" THEN "Unknown (Not in Metadata)"
                        ELSE m.COUNTY_NAME]>> \o rest
             ELSE rest

RECURSIVE LeftMerge(_, _)
LeftMerge(rows, meta_rows) ==
    IF rows = <<>> THEN <<>>
    ELSE LET hit == MatchesOf(Head(rows), meta_rows)
         IN  (IF hit = <<>>
              THEN <<[Head(rows) EXCEPT !.COUNTY_NAME = "Unknown (Not in Metadata)"]>>
              ELSE hit) \o LeftMerge(Tail(rows), meta_rows)

WithCounty(rows, county) == [k \in 1..Len(rows) |-> [rows[k] EXCEPT !.COUNTY_NAME = county]]

\* lines 81-94
AttachCounty(rows, meta) ==
    IF meta.state = "missing" THEN WithCounty(rows, "Unknown (Metadata Missing)")
    ELSE IF meta.state = "unreadable" THEN WithCounty(rows, "Unknown (Metadata Error)")
    ELSE IF meta.state = "no_columns" THEN WithCounty(rows, "Unknown (Metadata Format Issue)")
    ELSE LeftMerge(rows, meta.rows)

\* lines 96-98
KeepRow(row, min_size, req_coords) ==
    /\ min_size > 0 =>
          LET area == to_numeric(row.LAKE_AREA_DOW_ACRES)
          IN  num_notna(area) /\ NumGe(area, min_size)
    /\ req_coords => notna(row.LAKE_CENTER_LAT_DD5) /\ notna(row.LAKE_CENTER_LONG_DD5)

FilterRows(rows, min_size, req_coords) ==
    SelectSeq(rows, LAMBDA row : KeepRow(row, min_size, req_coords))

RowMapId(row) == MapIdOf(row.DOW_NBR_PRIMARY, row.DOW_SUB_BASIN_NBR_PRIMARY)

\* mutant: a name keeps the first canonical key seen for it
AddAssocFirstSeen(assoc, name, map_id) ==
    IF Truthy(name) /\ name \notin DOMAIN assoc THEN Put(assoc, name, {map_id}) ELSE assoc

\* name_map_id_associations[name].add(current_map_id)
AddAssoc(assoc, name, map_id) ==
    IF Truthy(name)
    THEN Put(assoc, name, (IF name \in DOMAIN assoc THEN assoc[name] ELSE {}) \cup {map_id})
    ELSE assoc

\* mutant: the index is taken from the first row alone
AssociationsFirstRow(rows) ==
    IF rows = <<>> \/ ~Truthy(RowMapId(rows[1])) THEN EmptyDict
    ELSE AddAssoc(AddAssoc(EmptyDict, normalize_name(rows[1].LAKE_NAME), RowMapId(rows[1])),
                  normalize_name(rows[1].ALT_LAKE_NAME), RowMapId(rows[1]))

\* mutant: the alternate name is left out of the index
RECURSIVE AssociationsNameOnly(_)
AssociationsNameOnly(rows) ==
    IF rows = <<>> THEN EmptyDict
    ELSE LET row == rows[Len(rows)]
             before == AssociationsNameOnly(SubSeq(rows, 1, Len(rows) - 1))
             current_map_id == RowMapId(row)
         IN  IF Truthy(current_map_id)
             THEN AddAssoc(before, normalize_name(row.LAKE_NAME), current_map_id)
             ELSE before

\* First pass, lines 111-131
RECURSIVE Associations(_)
Associations(rows) ==
    IF rows = <<>> THEN EmptyDict
    ELSE LET row == rows[Len(rows)]
             before == Associations(SubSeq(rows, 1, Len(rows) - 1))
             current_map_id == RowMapId(row)
         IN  IF Truthy(current_map_id)
             THEN AddAssoc(AddAssoc(before, normalize_name(row.LAKE_NAME), current_map_id),
                           normalize_name(row.ALT_LAKE_NAME), current_map_id)
             ELSE before

\* mutant: a name is excluded only from three canonical keys on
AmbiguousNamesOverTwo(assoc) == {name \in DOMAIN assoc : Cardinality(assoc[name]) > 2}

\* lines 134-138
AmbiguousNames(assoc) == {name \in DOMAIN assoc : Cardinality(assoc[name]) > 1}

\* list(map_ids_set)[0], line 144: the first element in the iteration
\* order of a set of strings, which depends on the hash seed of the
\* process.  The orders told apart are the two ends of the numeric order
\* of the keys.
SetOrders == {"ascending", "descending"}
FirstOf(map_ids_set, order) ==
    CHOOSE first \in map_ids_set : \A other \in map_ids_set :
        IF order = "ascending" THEN NatOfDigits(first) <= NatOfDigits(other)
        ELSE NatOfDigits(first) >= NatOfDigits(other)

\* mutant: no name is excluded, an ambiguous name keeps one of its keys
BuildLookupKeepAmbiguous(assoc, order) ==
    [name \in DOMAIN assoc |-> FirstOf(assoc[name], order)]

\* lines 141-144
BuildLookup(assoc, order) ==
    [name \in (DOMAIN assoc) \ AmbiguousNames(assoc) |-> FirstOf(assoc[name], order)]

\* lines 170-173
DowNumber(raw_dow_primary) ==
    IF notna(raw_dow_primary)
    THEN LET n == to_numeric(get_cleaned_id(raw_dow_primary))
         IN  IF IntRaises(n) THEN get_cleaned_id(raw_dow_primary) ELSE IntToStr(PyInt(n))
    ELSE None

\* mutant: the lake entry carries the primary code alone as its map_id
LakeEntryPrimaryCode(row) ==
    [id |-> get_cleaned_id(row.FISHERIES_WATERBODY_ID),
     name |-> IF row.LAKE_NAME = NaN THEN <<"n","a","n">> ELSE Strip(row.LAKE_NAME),
     county |-> row.COUNTY_NAME,
     area_acres |-> LakeValue(Round2(to_numeric(row.LAKE_AREA_DOW_ACRES))),
     latitude |-> LakeValue(to_numeric(row.LAKE_CENTER_LAT_DD5)),
     longitude |-> LakeValue(to_numeric(row.LAKE_CENTER_LONG_DD5)),
     alternate_name |-> get_cleaned_id(row.ALT_LAKE_NAME),
     map_id |-> DowNumber(row.DOW_NBR_PRIMARY),
     dow_number |-> DowNumber(row.DOW_NBR_PRIMARY)]

\* Second pass, lines 147-174 (area after the rounding of lines 100-104)
LakeEntry(row) ==
    [id |-> get_cleaned_id(row.FISHERIES_WATERBODY_ID),
     name |-> IF row.LAKE_NAME = NaN THEN <<"n","a","n">> ELSE Strip(row.LAKE_NAME),
     county |-> row.COUNTY_NAME,
     area_acres |-> LakeValue(Round2(to_numeric(row.LAKE_AREA_DOW_ACRES))),
     latitude |-> LakeValue(to_numeric(row.LAKE_CENTER_LAT_DD5)),
     longitude |-> LakeValue(to_numeric(row.LAKE_CENTER_LONG_DD5)),
     alternate_name |-> get_cleaned_id(row.ALT_LAKE_NAME),
     map_id |-> RowMapId(row),
     dow_number |-> DowNumber(row.DOW_NBR_PRIMARY)]

LakeEntries(rows) == [k \in 1..Len(rows) |-> LakeEntry(rows[k])]

\* The frame the two passes iterate: merged, then filtered.
LakeFrame(file, meta, min_size, req_coords) ==
    FilterRows(AttachCounty(file.rows, meta), min_size, req_coords)

-----------------------------------------------------------------------------
(* process_fish_data                                                       *)

\* length_cols of MEGA_LENGTH_FILE_CONFIG (the first two of the thirteen)
\* and the range_key line 232 derives from each
LengthCols == <<"0-5 INCHES", "6-7 INCHES">>
RangeKey(col_name) == IF col_name = "0-5 INCHES" THEN "0-5" ELSE "6-7"

\* mutant: the alternate name is looked up first
ResolveRowAltFirst(row, has_alt_col, lookup) ==
    LET norm_fish_lake_name == normalize_name(row.WATER_BODY_NAME)
        norm_fish_alt_lake_name == normalize_name(row.ALT_NAME)
        by_alt == IF has_alt_col /\ Truthy(norm_fish_alt_lake_name)
                  THEN Get(lookup, norm_fish_alt_lake_name) ELSE None
        by_name == IF Truthy(norm_fish_lake_name) THEN Get(lookup, norm_fish_lake_name)
                   ELSE None
    IN  IF Truthy(by_alt) THEN [map_id_key |-> by_alt, via |-> "alt"]
        ELSE IF Truthy(by_name) THEN [map_id_key |-> by_name, via |-> "name"]
        ELSE [map_id_key |-> None, via |-> "none"]

\* lines 205-209: map_id_key and the lookup that set it
ResolveRow(row, has_alt_col, lookup) ==
    LET norm_fish_lake_name == normalize_name(row.WATER_BODY_NAME)
        by_name == IF Truthy(norm_fish_lake_name) THEN Get(lookup, norm_fish_lake_name)
                   ELSE None
        norm_fish_alt_lake_name == normalize_name(row.ALT_NAME)
        try_alt == ~Truthy(by_name) /\ has_alt_col /\ Truthy(norm_fish_alt_lake_name)
        by_alt == IF try_alt THEN Get(lookup, norm_fish_alt_lake_name) ELSE None
    IN  IF Truthy(by_name) THEN [map_id_key |-> by_name, via |-> "name"]
        ELSE IF Truthy(by_alt) THEN [map_id_key |-> by_alt, via |-> "alt"]
        ELSE [map_id_key |-> None, via |-> "none"]

\* lines 220-223: both arms of the conditional call float(val_str)
CpueOf(raw_cpue) ==
    IF notna(raw_cpue)
    THEN LET v == PyFloat(Lower(Strip(raw_cpue)))
         IN  IF v = Raised THEN JNull ELSE v
    ELSE JNull

\* int(float(raw)) under "except ValueError": lines 224-227 and 233-236
CountOf(raw) ==
    IF notna(raw)
    THEN LET v == PyFloat(raw)
         IN  IF v.t = "num" THEN JInt(PyInt(v)) ELSE JNull
    ELSE JNull

\* int(float("inf")) raises OverflowError, which "except ValueError" lets through
CountOverflows(raw) == notna(raw) /\ PyFloat(raw).t = "inf"

CatchEntry(row) ==
    [survey_date |-> get_cleaned_id(row.SURVEY_DATE),
     cpue |-> CpueOf(row.CATCH_CPUE),
     total_catch |-> CountOf(row.TOTAL_CATCH),
     gear_type |-> get_cleaned_id(row.GEAR)]

LengthDist(row) ==
    [range_key \in {RangeKey(LengthCols[c]) : c \in 1..Len(LengthCols)} |->
        CountOf(row.buckets[CHOOSE c \in 1..Len(LengthCols) : RangeKey(LengthCols[c]) = range_key])]

LengthEntry(row) ==
    [survey_date |-> get_cleaned_id(row.SURVEY_DATE),
     length_distribution |-> LengthDist(row)]

\* line 237
AllUnknown(length_dist) == \A k \in DOMAIN length_dist : length_dist[k] = JNull

RowRaises(data_type_name, row) ==
    IF data_type_name = "catch" THEN CountOverflows(row.TOTAL_CATCH)
    ELSE \E c \in 1..Len(LengthCols) : CountOverflows(row.buckets[c])

\* lines 215-216
WithSlot(data, map_id_key, species_code) ==
    LET d1 == IF map_id_key \in DOMAIN data THEN data ELSE Put(data, map_id_key, EmptyDict)
    IN  IF species_code \in DOMAIN d1[map_id_key] THEN d1
        ELSE Put(d1, map_id_key, Put(d1[map_id_key], species_code, <<>>))

\* mutant: the entry replaces the list instead of being appended to it
AppendedOverwrite(data, map_id_key, species_code, entry) ==
    Put(data, map_id_key, Put(data[map_id_key], species_code, <<entry>>))

\* line 239
Appended(data, map_id_key, species_code, entry) ==
    Put(data, map_id_key,
        Put(data[map_id_key], species_code, Append(data[map_id_key][species_code], entry)))

\* One iteration of the loop of lines 204-239 on a row that does not raise.
RowStep(data_type_name, row, has_alt_col, lookup, data, unlinked) ==
    LET res == ResolveRow(row, has_alt_col, lookup)
        map_id_key == res.map_id_key
        species_code == get_cleaned_id(row.SPECIES_CODE)
        slotted == WithSlot(data, map_id_key, species_code)
    IN  IF ~Truthy(map_id_key) \/ ~Truthy(species_code)
        THEN [data |-> data,
              unlinked |-> IF ~Truthy(map_id_key) /\ Truthy(normalize_name(row.WATER_BODY_NAME))
                           THEN unlinked + 1 ELSE unlinked,
              res |-> res]
        ELSE IF data_type_name = "catch"
        THEN [data |-> Appended(slotted, map_id_key, species_code, CatchEntry(row)),
              unlinked |-> unlinked, res |-> res]
        ELSE IF AllUnknown(LengthDist(row))
        THEN [data |-> slotted, unlinked |-> unlinked, res |-> res]
        ELSE [data |-> Appended(slotted, map_id_key, species_code, LengthEntry(row)),
              unlinked |-> unlinked, res |-> res]

-----------------------------------------------------------------------------
(* json.dump(..., cls=CustomJSONEncoder)                                   *)

\* CustomJSONEncoder.default, lines 30-35: reached only for objects the
\* standard encoder cannot serialise.
CustomDefault(v) == JNull

\* The standard encoder writes None, int and float itself: a float
\* infinity as the literal Infinity, a float NaN as the literal NaN.
JsonValue(v) ==
    IF v.t = "null" \/ v.t = "int" \/ v.t = "num" THEN v
    ELSE IF v.t = "inf" THEN [v EXCEPT !.t = "Infinity"]
    ELSE IF v.t = "nan" THEN [v EXCEPT !.t = "NaN"]
    ELSE CustomDefault(v)

JsonCatchEntry(e) == [e EXCEPT !.cpue = JsonValue(e.cpue), !.total_catch = JsonValue(e.total_catch)]
JsonLengthEntry(e) ==
    [e EXCEPT !.length_distribution =
        [k \in DOMAIN e.length_distribution |-> JsonValue(e.length_distribution[k])]]

JsonFish(data_type_name, data) ==
    [m \in DOMAIN data |-> [sp \in DOMAIN data[m] |->
        [k \in 1..Len(data[m][sp]) |->
            IF data_type_name = "catch" THEN JsonCatchEntry(data[m][sp][k])
            ELSE JsonLengthEntry(data[m][sp][k])]]]

JsonLake(e) == [e EXCEPT !.area_acres = JsonValue(e.area_acres),
                         !.latitude = JsonValue(e.latitude),
                         !.longitude = JsonValue(e.longitude)]
JsonLakes(ls) == [k \in 1..Len(ls) |-> JsonLake(ls[k])]

Absent == [present |-> FALSE, content |-> <<>>]
Written(content) == [present |-> TRUE, content |-> content]

-----------------------------------------------------------------------------
(* create_species_reference                                                *)

Txt(word) == <<word>>

\* The texts the enumerated files are written with: lake names and their
\* variants, identifier and code cells plain, wrapped and with a thousands
\* separator, a species code, and the infinity tokens (the character U+221E
\* written by its code point)
Sample ==
    [Mud |-> <<"M","u","d">>,
     MudUpper |-> <<"M","U","D"," ">>,
     Long |-> <<"L","o","n","g">>,
     LongLower |-> <<" ","l","o","n","g">>,
     Code12345 |-> <<"1","2","3","4","5">>,
     Code7 |-> <<"7">>,
     Code3 |-> <<"3">>,
     Code100 |-> <<"1", "0", "0">>,
     Id2379 |-> <<"2","3","7","9">>,
     Key1234503 |-> <<"1","2","3","4","5","0","3">>,
     Wrapped7 |-> <<"=", "\"", "7", "\"">>,
     Wrapped2379 |-> <<"=", "\"", "2", "3", "7", "9", "\"">>,
     CommaCode13 |-> <<"1", ",", "3">>,
     Comma1234 |-> <<"1", ",", "2", "3", "4">>,
     WAE |-> <<"W","A","E">>,
     Inf |-> <<"i", "n", "f">>,
     InfinitySign |-> "U+221E",
     WaterbodyIds |-> <<<<"2","3","7","9">>, <<"7">>, <<"8">>, <<"9">>>>,
     SurveyDates |-> <<<<"d","1">>, <<"d","2">>, <<"d","3">>, <<"d","4">>>>]

SpeciesInfo(name, scientific_name) == [name |-> name, scientific_name |-> scientific_name]

\* species_mapping, lines 252-258
species_mapping ==
    (Sample.WAE :> SpeciesInfo(Txt("Walleye"), Txt("Sander vitreus"))) @@
    (<<"N","O","P">> :> SpeciesInfo(Txt("Northern Pike"), Txt("Esox lucius"))) @@
    (<<"L","M","B">> :> SpeciesInfo(Txt("Largemouth Bass"), Txt("Micropterus salmoides"))) @@
    (<<"S","M","B">> :> SpeciesInfo(Txt("Smallmouth Bass"), Txt("Micropterus dolomieu"))) @@
    (<<"B","L","C">> :> SpeciesInfo(Txt("Black Crappie"), Txt("Pomoxis nigromaculatus"))) @@
    (<<"B","L","G">> :> SpeciesInfo(Txt("Bluegill"), Txt("Lepomis macrochirus"))) @@
    (<<"Y","E","P">> :> SpeciesInfo(Txt("Yellow Perch"), Txt("Perca flavescens"))) @@
    (<<"M","U","E">> :> SpeciesInfo(Txt("Muskellunge"), Txt("Esox masquinongy"))) @@
    (<<"T","L","C">> :> SpeciesInfo(Txt("Tullibee (Cisco)"), Txt("Coregonus artedi"))) @@
    (<<"L","K","T">> :> SpeciesInfo(Txt("Lake Trout"), Txt("Salvelinus namaycush")))

\* mutant: the builtin table, with a placeholder for every other code read
SpeciesOfRowsExtended(rows) ==
    LET unique_species == {get_cleaned_id(rows[k].SPECIES_CODE) :
                              k \in {j \in 1..Len(rows) : rows[j].SPECIES_CODE # NaN}}
    IN  [sp_code \in {c \in unique_species : Truthy(c)} \cup DOMAIN species_mapping |->
            IF sp_code \in DOMAIN species_mapping THEN species_mapping[sp_code]
            ELSE SpeciesInfo(Txt("Species ") \o sp_code, Txt("Unknown"))]

\* lines 266-268
SpeciesOfRows(rows) ==
    LET unique_species == {get_cleaned_id(rows[k].SPECIES_CODE) :
                              k \in {j \in 1..Len(rows) : rows[j].SPECIES_CODE # NaN}}
    IN  [sp_code \in {c \in unique_species : Truthy(c)} |->
            IF sp_code \in DOMAIN species_mapping THEN species_mapping[sp_code]
            ELSE SpeciesInfo(Txt("Species ") \o sp_code, Txt("Unknown"))]

\* lines 260-270
SpeciesDict(file) ==
    IF file.state \in {"missing", "unreadable", "no_species_col"} THEN species_mapping
    ELSE SpeciesOfRows(file.rows)

-----------------------------------------------------------------------------
(* Inputs: the files under attached_assets/.  The registry and the         *)
(* metadata are fixed when the run starts; a survey file shows its rows    *)
(* one at a time, as the loop of process_fish_data reads them.             *)

MaxLakes == 2           \* rows of the primary registry
MaxFishRows == 2        \* survey rows, catch and length files together

SeqsUpTo(S, n) == UNION {[1..k -> S] : k \in 0..n}


\* a cell of an enumerated row, or the value every row has when the
\* enumeration leaves the column out
Cell(cells, column, default) == IF column \in DOMAIN cells THEN cells[column] ELSE default

PrimaryRow(k, cells) ==
    [FISHERIES_WATERBODY_ID |-> Cell(cells, "FISHERIES_WATERBODY_ID", Sample.WaterbodyIds[k]),
     LAKE_NAME |-> cells.LAKE_NAME,
     ALT_LAKE_NAME |-> Cell(cells, "ALT_LAKE_NAME", NaN),
     DOW_NBR_PRIMARY |-> cells.DOW_NBR_PRIMARY,
     DOW_SUB_BASIN_NBR_PRIMARY |-> Cell(cells, "DOW_SUB_BASIN_NBR_PRIMARY", Sample.Code3),
     LAKE_AREA_DOW_ACRES |-> Cell(cells, "LAKE_AREA_DOW_ACRES", <<"5","0",".","1","2","5">>),
     LAKE_CENTER_LAT_DD5 |-> Cell(cells, "LAKE_CENTER_LAT_DD5", <<"4","6",".","5">>),
     LAKE_CENTER_LONG_DD5 |-> Cell(cells, "LAKE_CENTER_LONG_DD5", <<"-","9","4",".","2">>),
     COUNTY_NAME |-> "NaN"]

PrimaryFilesOf(cells) ==
    {[exists |-> TRUE, rows |-> [k \in 1..Len(cs) |-> PrimaryRow(k, cs[k])]] :
        cs \in SeqsUpTo(cells, MaxLakes)}

\* The cells the enumerated files are made of, by the specification that
\* draws them.
Inputs ==
    LET
        CpueTokens ==
            {<<"1", ".", "5">>, <<"0">>, Sample.Inf, <<"I", "n", "f", "i", "n", "i", "t", "y">>,
            <<"-", "i", "n", "f">>, <<Sample.InfinitySign>>, NaN, <<"x">>, Sample.Comma1234}
        CountTokens == {<<"0">>, <<"1", "2">>, NaN, <<"x">>, Sample.Inf, Sample.Comma1234}
        BucketTokens == {<<NaN, NaN>>, <<<<"4">>, NaN>>, <<<<"x">>, <<"0">>>>, <<Sample.Inf, NaN>>}
    IN
     \* Two names, one of them also borne as an alternate name, two primary
     \* codes, and a record without a primary code.
    [PrimaryCells |->
        ([LAKE_NAME : {Sample.Mud}, ALT_LAKE_NAME : {NaN}, DOW_NBR_PRIMARY : {Sample.Code12345, Sample.Code7, NaN}]
         \cup [LAKE_NAME : {Sample.Long}, ALT_LAKE_NAME : {NaN, Sample.MudUpper}, DOW_NBR_PRIMARY : {Sample.Code7}]),
     \* For the name index alone: names differing in case and blanks, a blank
     \* name, a missing alternate name, a wrapped and an unparsable code.
     IndexCells |->
        ([LAKE_NAME : {Sample.Mud, Sample.MudUpper, Sample.Long, <<" ">>}, ALT_LAKE_NAME : {NaN, Sample.LongLower},
         DOW_NBR_PRIMARY : {Sample.Code12345, <<"=","\"","7","\"">>, <<"x">>}]),
     \* For the join with the metadata registry: rows that differ by their
     \* waterbody id, against metadata rows with repeated, matching and foreign ids.
     JoinCells |->
        ([FISHERIES_WATERBODY_ID : {<<"2","3","7","9">>, <<"7">>}, LAKE_NAME : {Sample.Mud},
         DOW_NBR_PRIMARY : {Sample.Code12345}]),
     MetaRows |->
        ([FISHERIES_WATERBODY_ID : {<<"2","3","7","9">>, <<"8">>}, COUNTY_NAME : {"Cass", "NaN"}]),
     \* With or without a name and an alternate name (whether a name resolves
     \* depends on the registry), and a row without a species code.
     CatchCells |->
        ([WATER_BODY_NAME : {Sample.MudUpper, NaN}, ALT_NAME : {NaN, Sample.LongLower},
         SPECIES_CODE : {Sample.WAE}, CATCH_CPUE : {<<"1",".","5">>}, TOTAL_CATCH : {<<"0">>}]
         \cup [WATER_BODY_NAME : {Sample.MudUpper}, ALT_NAME : {NaN},
         SPECIES_CODE : {NaN}, CATCH_CPUE : {<<"1",".","5">>}, TOTAL_CATCH : {<<"0">>}]),
     LengthCells |->
        ([WATER_BODY_NAME : {Sample.Mud}, buckets : {<<NaN, NaN>>, <<<<"4">>, NaN>>}]),
     CodeDigits |->
        ({"0", "1", "3"}),
     UnparsableCodes |->
        ({<<"x">>, <<" ">>, <<"i", "n", "f">>}),
     AreaTokens |->
        ({<<"5", "0", ".", "1", "2", "5">>, Sample.Comma1234}),
     ValueCatchCells |->
        ([WATER_BODY_NAME : {Sample.Mud}, ALT_NAME : {NaN}, SPECIES_CODE : {Sample.WAE},
         CATCH_CPUE : CpueTokens, TOTAL_CATCH : CountTokens]),
     ValueLengthCells |->
        ([WATER_BODY_NAME : {Sample.Mud}, buckets : BucketTokens]),
     LegacyCatchCells |->
        ([ID : {Sample.Id2379}, SPECIES_CODE : {Sample.WAE}, CATCH_CPUE : CpueTokens, TOTAL_CATCH : CountTokens]
         \cup [ID : {Sample.Wrapped2379}, SPECIES_CODE : {Sample.WAE, NaN},
         CATCH_CPUE : {<<"1", ".", "5">>}, TOTAL_CATCH : {<<"0">>}]),
     LegacyLengthCells |->
        ([ID : {Sample.Id2379, Sample.Wrapped2379}, SPECIES_CODE : {Sample.WAE}, buckets : BucketTokens]),
     \* Registries of Mud lake records that differ by their latitude cell: a
     \* number, an empty cell, a text that is no number
     SourceCells |->
        ([LAKE_NAME : {Sample.Mud}, DOW_NBR_PRIMARY : {Sample.Code12345},
         LAKE_CENTER_LAT_DD5 : {<<"4","6",".","5">>, NaN, <<"x">>}]),
     \* a recognised species code, one the builtin table does not have, and a
     \* row without a code
     SourceCatchCells |->
        ([WATER_BODY_NAME : {Sample.Mud}, ALT_NAME : {NaN},
         SPECIES_CODE : {Sample.WAE, <<"X","Y","Z">>, NaN},
         CATCH_CPUE : {<<"1",".","5">>}, TOTAL_CATCH : {<<"0">>}]),
     \* Records named Mud under one of two primary codes or none, that pass
     \* both filters, are below the size bound, or have no latitude
     FilterCells |->
        ({[LAKE_NAME |-> Sample.Mud, DOW_NBR_PRIMARY |-> code,
         LAKE_AREA_DOW_ACRES |-> fate[1], LAKE_CENTER_LAT_DD5 |-> fate[2]] :
         code \in {Sample.Code12345, Sample.Code7, NaN},
         fate \in {<<<<"2","0","0">>, <<"4","6",".","5">>>>,
         <<<<"5","0",".","1","2","5">>, <<"4","6",".","5">>>>,
         <<<<"2","0","0">>, NaN>>}})]

PrimaryFiles == {[exists |-> FALSE, rows |-> <<>>]} \cup PrimaryFilesOf(Inputs.PrimaryCells)

MaxMetaRows == 2
MetadataFiles ==
    {[state |-> st, rows |-> <<>>] : st \in {"missing", "unreadable", "no_columns"}}
    \cup {[state |-> "ok", rows |-> rs] : rs \in SeqsUpTo(Inputs.MetaRows, MaxMetaRows)}

CatchRow(k, cells) ==
    [WATER_BODY_NAME |-> cells.WATER_BODY_NAME, ALT_NAME |-> cells.ALT_NAME,
     SPECIES_CODE |-> cells.SPECIES_CODE, SURVEY_DATE |-> Sample.SurveyDates[k],
     CATCH_CPUE |-> cells.CATCH_CPUE, TOTAL_CATCH |-> cells.TOTAL_CATCH, GEAR |-> <<"G","N">>,
     buckets |-> <<NaN, NaN>>]


LengthRow(k, cells) ==
    [WATER_BODY_NAME |-> cells.WATER_BODY_NAME, ALT_NAME |-> NaN,
     SPECIES_CODE |-> Sample.WAE, SURVEY_DATE |-> Sample.SurveyDates[k],
     CATCH_CPUE |-> NaN, TOTAL_CATCH |-> NaN, GEAR |-> NaN,
     buckets |-> cells.buckets]


\* the row read from its cells: the catch and the length file differ by
\* their columns
MakeRow(data_type_name, k, cells) ==
    IF data_type_name = "catch" THEN CatchRow(k, cells) ELSE LengthRow(k, cells)

\* the rows a file in a given state can hold: without the ALT_NAME column
\* every row reads a missing alternate name
FishCells(data_type_name, state, cells) ==
    {c \in cells : state = "no_alt_col" => c.ALT_NAME = NaN}

NoDisk == [path \in {"data/lakes.json", "data/fish_catch.json", "data/fish_length.json",
                     "data/fish_species.json", "consolidated_lake_data.csv"} |-> Absent]

-----------------------------------------------------------------------------
(* main() of preprocess_all_data_no_fish_dupes.py, one action per stage    *)
(* and one per iteration of the survey loop.                               *)

FishFile(data_type_name) == IF data_type_name = "catch" THEN catch_file ELSE length_file
\* the artifact of a survey stage, the position of its loop and the stage
\* main() calls after it
FishStage(data_type_name) ==
    IF data_type_name = "catch"
    THEN [path |-> "data/fish_catch.json", loop |-> "catch_loop", after |-> "length"]
    ELSE [path |-> "data/fish_length.json", loop |-> "length_loop", after |-> "species"]
RowsLeft == MaxFishRows - (Len(catch_file.rows) + Len(length_file.rows))

params == <<script, call, ret, primary_file, metadata_file, sentinel_file, border_file,
            min_lake_size_acres, require_coordinates, first_run, session_state>>
fish_locals == <<processed_data, unlinked_records, resolved>>

\* col in df.columns: a registry names the columns it lacks, and none when
\* it has them all
HasColumn(file, col) == "absent" \in DOMAIN file => col \notin file.absent

\* lines 71-180.  A registry that is not there or cannot be read returns
\* ([], {}) (lines 74-79); df['LAKE_AREA_DOW_ACRES'] of line 96 and the
\* coordinate columns of line 98 raise KeyError on a frame without the
\* column, which leaves the function and is caught by main (line 292).
ProcessLakeMetadata ==
    /\ script = "preprocess" /\ pc = "lake_metadata"
    /\ IF ~primary_file.exists
       THEN /\ lakes' = <<>>
            /\ name_to_map_id_lookup' = EmptyDict
            /\ disk' = disk
            /\ pc' = "catch"
       ELSE IF \/ ~HasColumn(primary_file, "LAKE_AREA_DOW_ACRES")
               \/ /\ require_coordinates
                  /\ \/ ~HasColumn(primary_file, "LAKE_CENTER_LAT_DD5")
                     \/ ~HasColumn(primary_file, "LAKE_CENTER_LONG_DD5")
       THEN /\ pc' = "fatal"
            /\ UNCHANGED <<lakes, name_to_map_id_lookup, disk>>
       ELSE LET df == LakeFrame(primary_file, metadata_file,
                                min_lake_size_acres, require_coordinates)
            IN  /\ lakes' = LakeEntries(df)
                /\ \E order \in SetOrders :
                      name_to_map_id_lookup' = BuildLookup(Associations(df), order)
                /\ disk' = [disk EXCEPT !["data/lakes.json"] = Written(JsonLakes(LakeEntries(df)))]
                /\ pc' = "catch"
    /\ UNCHANGED <<params, catch_file, length_file, fish_locals, catch_data, length_data,
                   species_data>>

\* The value process_fish_data returns to main
ReturnFish(data_type_name, data) ==
    /\ IF data_type_name = "catch"
       THEN catch_data' = data /\ length_data' = length_data
       ELSE length_data' = data /\ catch_data' = catch_data
    /\ pc' = FishStage(data_type_name).after

\* The survey file as the loop has read it so far
ReadFish(data_type_name, file) ==
    IF data_type_name = "catch"
    THEN catch_file' = file /\ length_file' = length_file
    ELSE length_file' = file /\ catch_file' = catch_file

\* lines 189-203: the early returns, else entry into the loop.  A file
\* that is present but not read (empty lookup) keeps rows of its own.
OpenFish(data_type_name, cells) ==
    /\ script = "preprocess" /\ pc = data_type_name
    /\ LET file == FishFile(data_type_name)
       IN  IF file.state \in {"missing", "unreadable", "no_species_col", "no_name_col"}
           THEN /\ ReturnFish(data_type_name, EmptyDict)
                /\ UNCHANGED <<catch_file, length_file>>
           ELSE IF DOMAIN name_to_map_id_lookup = {}
           THEN /\ ReturnFish(data_type_name, EmptyDict)
                /\ IF first_run.ran THEN UNCHANGED <<catch_file, length_file>>
                   ELSE \E cs \in SeqsUpTo(FishCells(data_type_name, file.state, cells),
                                            RowsLeft) :
                           ReadFish(data_type_name,
                                    [file EXCEPT !.rows = [k \in 1..Len(cs) |->
                                                     MakeRow(data_type_name, k, cs[k])]])
           ELSE /\ pc' = FishStage(data_type_name).loop
                /\ UNCHANGED <<catch_data, length_data, catch_file, length_file>>
    /\ processed_data' = EmptyDict
    /\ unlinked_records' = 0
    /\ resolved' = <<>>
    /\ UNCHANGED <<params, lakes, name_to_map_id_lookup, species_data, disk>>

\* The rows the loop can meet next: the next row of the file where the
\* file is known that far (a later run over the same file), else any row
\* the file may hold
NextRows(data_type_name, cells) ==
    LET file == FishFile(data_type_name)
    IN  IF Len(resolved) < Len(file.rows) THEN {file.rows[Len(resolved) + 1]}
        ELSE IF first_run.ran \/ RowsLeft = 0 THEN {}
        ELSE {MakeRow(data_type_name, Len(file.rows) + 1, c) :
                c \in FishCells(data_type_name, file.state, cells)}

\* lines 204-239, one row; an exception leaves process_fish_data and is
\* caught by main (line 292)
RowFish(data_type_name, cells) ==
    /\ script = "preprocess" /\ pc = FishStage(data_type_name).loop
    /\ \E row \in NextRows(data_type_name, cells) :
         LET file == FishFile(data_type_name)
             step == RowStep(data_type_name, row, file.state # "no_alt_col",
                             name_to_map_id_lookup, processed_data, unlinked_records)
         IN  /\ ReadFish(data_type_name,
                         [file EXCEPT !.rows = SubSeq(file.rows, 1, Len(resolved)) \o <<row>>
                                               \o SubSeq(file.rows, Len(resolved) + 2,
                                                         Len(file.rows))])
             /\ IF Truthy(step.res.map_id_key) /\ Truthy(get_cleaned_id(row.SPECIES_CODE))
                    /\ RowRaises(data_type_name, row)
                 THEN /\ pc' = "fatal"
                      /\ UNCHANGED fish_locals
                 ELSE /\ pc' = pc
                      /\ processed_data' = step.data
                      /\ unlinked_records' = step.unlinked
                      /\ resolved' = Append(resolved, [row |-> row,
                                                        map_id_key |-> step.res.map_id_key,
                                                        via |-> step.res.via])
    /\ UNCHANGED <<params, lakes, name_to_map_id_lookup, catch_data, length_data,
                   species_data, disk>>

\* lines 241-245, at the end of the file
CloseFish(data_type_name) ==
    /\ script = "preprocess" /\ pc = FishStage(data_type_name).loop
    /\ Len(resolved) = Len(FishFile(data_type_name).rows)
    /\ disk' = [disk EXCEPT ![FishStage(data_type_name).path] =
                    Written(JsonFish(data_type_name, processed_data))]
    /\ ReturnFish(data_type_name, processed_data)
    /\ UNCHANGED <<params, catch_file, length_file, fish_locals, lakes,
                   name_to_map_id_lookup, species_data>>

\* lines 249-273
CreateSpeciesReference ==
    /\ script = "preprocess" /\ pc = "species"
    /\ species_data' = SpeciesDict(catch_file)
    /\ disk' = [disk EXCEPT !["data/fish_species.json"] = Written(SpeciesDict(catch_file))]
    /\ pc' = "done"
    /\ UNCHANGED <<params, catch_file, length_file, fish_locals, lakes,
                   name_to_map_id_lookup, catch_data, length_data>>

\* main() is run again over the same inputs, the artifacts of the first run
\* still in data/
RunAgain ==
    /\ script = "preprocess" /\ pc \in {"done", "fatal"}
    /\ ~first_run.ran
    /\ first_run' = [ran |-> TRUE, pc |-> pc, disk |-> disk, lakes |-> lakes,
                     catch_data |-> catch_data, length_data |-> length_data,
                     species_data |-> species_data]
    /\ pc' = "lake_metadata"
    /\ lakes' = <<>> /\ name_to_map_id_lookup' = EmptyDict
    /\ processed_data' = EmptyDict /\ unlinked_records' = 0 /\ resolved' = <<>>
    /\ catch_data' = EmptyDict /\ length_data' = EmptyDict /\ species_data' = EmptyDict
    /\ UNCHANGED <<script, call, ret, primary_file, metadata_file, sentinel_file,
                   border_file, min_lake_size_acres, require_coordinates, catch_file,
                   length_file, disk, session_state>>

vars == <<script, pc, call, ret, primary_file, metadata_file, sentinel_file, border_file,
          min_lake_size_acres,
          require_coordinates, lakes, name_to_map_id_lookup, catch_file, length_file,
          processed_data, unlinked_records, resolved, catch_data, length_data,
          species_data, disk, first_run, session_state>>

Next ==
    \/ ProcessLakeMetadata
    \/ OpenFish("catch", Inputs.CatchCells) \/ RowFish("catch", Inputs.CatchCells) \/ CloseFish("catch")
    \/ OpenFish("length", Inputs.LengthCells) \/ RowFish("length", Inputs.LengthCells) \/ CloseFish("length")
    \/ CreateSpeciesReference

InitRun ==
    /\ script = "preprocess" /\ pc = "lake_metadata"
    /\ call = <<>> /\ ret = <<>>
    /\ lakes = <<>> /\ name_to_map_id_lookup = EmptyDict
    /\ processed_data = EmptyDict /\ unlinked_records = 0 /\ resolved = <<>>
    /\ catch_data = EmptyDict /\ length_data = EmptyDict /\ species_data = EmptyDict
    /\ disk = NoDisk /\ first_run = [ran |-> FALSE]
    /\ session_state = [start_idx |-> 0, map_markers |-> <<>>, loading_complete |-> FALSE,
                        last_clicked |-> <<>>]
    /\ sentinel_file = [state |-> "missing", ids |-> <<>>]
    /\ border_file = [state |-> "missing", ids |-> <<>>]

\* main() calls process_lake_metadata(min_lake_size_acres=0, require_coordinates=False)
Init ==
    /\ InitRun
    /\ min_lake_size_acres = 0 /\ require_coordinates = FALSE
    /\ primary_file \in PrimaryFiles
    /\ metadata_file = [state |-> "missing", rows |-> <<>>]
    /\ catch_file \in {[state |-> st, rows |-> <<>>] :
                           st \in {"ok", "missing", "no_species_col", "no_alt_col"}}
    /\ length_file \in {[state |-> st, rows |-> <<>>] : st \in {"ok", "missing"}}

Spec == Init /\ [][Next]_vars

\* main() run, then run once more over the same files: no registry, or
\* one that opens with Mud lake under code 12345 and goes on with any
\* records
InitTwice ==
    /\ InitRun
    /\ min_lake_size_acres = 0 /\ require_coordinates = FALSE
    /\ primary_file \in {f \in PrimaryFiles : f.exists =>
                              /\ Len(f.rows) >= 1
                              /\ f.rows[1].DOW_NBR_PRIMARY = Sample.Code12345}
    /\ metadata_file = [state |-> "missing", rows |-> <<>>]
    /\ catch_file \in {[state |-> st, rows |-> <<>>] :
                           st \in {"ok", "missing", "no_species_col", "no_alt_col"}}
    /\ length_file \in {[state |-> st, rows |-> <<>>] : st \in {"ok", "missing"}}

SpecTwice == InitTwice /\ [][Next \/ RunAgain]_vars

\* process_lake_metadata() on its own, with the defaults of its signature
InitLakes ==
    /\ InitRun
    /\ min_lake_size_acres = 0 /\ require_coordinates = FALSE
    /\ catch_file = [state |-> "missing", rows |-> <<>>]
    /\ length_file = [state |-> "missing", rows |-> <<>>]
    /\ \/ /\ primary_file \in PrimaryFilesOf(Inputs.IndexCells)
          /\ metadata_file = [state |-> "missing", rows |-> <<>>]
       \/ /\ primary_file \in PrimaryFilesOf(Inputs.JoinCells)
          /\ metadata_file \in MetadataFiles

SpecLakes == InitLakes /\ [][ProcessLakeMetadata]_vars

-----------------------------------------------------------------------------
(* The name index as the specification states it: the canonical keys of    *)
(* the registry records that carry a name key.                             *)

\* the name key of a name: case and surrounding blanks folded; a missing
\* or blank name has none
HasNameKey(name) == name # NaN /\ Strip(Lower(name)) # <<>>
NameKey(name) == Strip(Lower(name))

Carries(row, k) ==
    \/ HasNameKey(row.LAKE_NAME) /\ NameKey(row.LAKE_NAME) = k
    \/ HasNameKey(row.ALT_LAKE_NAME) /\ NameKey(row.ALT_LAKE_NAME) = k

KeysCarrying(k) ==
    {RowMapId(primary_file.rows[n]) :
        n \in {j \in 1..Len(primary_file.rows) : Carries(primary_file.rows[j], k)}} \ {None}

\* the name a survey row was linked through
LinkName(r) ==
    IF r.via = "name" THEN NameKey(r.row.WATER_BODY_NAME) ELSE NameKey(r.row.ALT_NAME)

Linked == {n \in 1..Len(resolved) : resolved[n].via # "none"}

\* C1: a name key that two or more distinct canonical keys carry links no
\* survey row: every linked row came through a name key whose only
\* canonical key is the one the row was linked to, and every lake key of
\* the survey data is the key of a linked row.
C1_AmbiguousNeverLinks ==
    /\ LET keys == [j \in 1..Len(primary_file.rows) |-> RowMapId(primary_file.rows[j])]
       IN  \A n \in Linked :
             LET carrying == {keys[j] : j \in {i \in 1..Len(primary_file.rows) :
                                 Carries(primary_file.rows[i], LinkName(resolved[n]))}}
                             \ {None}
             IN  Cardinality(carrying) < 2 /\ carrying = {resolved[n].map_id_key}
    /\ DOMAIN processed_data \subseteq {resolved[n].map_id_key : n \in Linked}

\* a survey row bearing an ambiguous name has been read, and a row was linked
C1_Witness ==
    /\ \E n \in 1..Len(resolved) :
          /\ HasNameKey(resolved[n].row.WATER_BODY_NAME)
          /\ Cardinality(KeysCarrying(NameKey(resolved[n].row.WATER_BODY_NAME))) >= 2
    /\ Linked # {}

\* C6: linkage precedence.  A row whose normalized lake name is in the
\* safe lookup is linked to that name's key by the name step; otherwise a
\* row whose normalized alternate name is in the lookup is linked to that
\* name's key by the alternate step; a row resolving by neither is linked
\* to no lake.
C6_FirstStepWins ==
    \A n \in 1..Len(resolved) :
        LET r == resolved[n]
            name == IF HasNameKey(r.row.WATER_BODY_NAME) THEN NameKey(r.row.WATER_BODY_NAME)
                    ELSE None
            alt == IF HasNameKey(r.row.ALT_NAME) THEN NameKey(r.row.ALT_NAME) ELSE None
        IN  IF name \in DOMAIN name_to_map_id_lookup
            THEN r.via = "name" /\ r.map_id_key = name_to_map_id_lookup[name]
            ELSE IF alt \in DOMAIN name_to_map_id_lookup
            THEN r.via = "alt" /\ r.map_id_key = name_to_map_id_lookup[alt]
            ELSE r.via = "none" /\ r.map_id_key = None

\* a row whose name and alternate name resolve to different lakes was
\* linked by its name, and another row was linked by its alternate name
C6_Witness ==
    /\ \E n \in 1..Len(resolved) :
          LET r == resolved[n]
              name == NameKey(r.row.WATER_BODY_NAME)
              alt == NameKey(r.row.ALT_NAME)
          IN  /\ name \in DOMAIN name_to_map_id_lookup
              /\ alt \in DOMAIN name_to_map_id_lookup
              /\ name_to_map_id_lookup[name] # name_to_map_id_lookup[alt]
              /\ r.via = "name"
    /\ \E n \in 1..Len(resolved) : resolved[n].via = "alt"

\* the rows read so far that were stored under (map_id_key, species_code)
StoredRows(map_id_key, species_code) ==
    SelectSeq(resolved, LAMBDA r : /\ r.map_id_key = map_id_key
                                   /\ get_cleaned_id(r.row.SPECIES_CODE) = species_code)

EntriesOf(rs) == [n \in 1..Len(rs) |-> CatchEntry(rs[n].row)]

\* C7: in the catch stage, at every point of the loop and in the value
\* returned, the list under (canonical key, species) holds one entry per
\* catch row linked to that key with that species, in file order, and
\* every such row has its list.
C7_CatchRowsAccumulate ==
    pc \in {"catch_loop", "length"} =>
        /\ \A m \in DOMAIN processed_data : \A sp \in DOMAIN processed_data[m] :
              processed_data[m][sp] = EntriesOf(StoredRows(m, sp))
        /\ \A n \in Linked :
              Truthy(get_cleaned_id(resolved[n].row.SPECIES_CODE)) =>
                  /\ resolved[n].map_id_key \in DOMAIN processed_data
                  /\ get_cleaned_id(resolved[n].row.SPECIES_CODE)
                         \in DOMAIN processed_data[resolved[n].map_id_key]
        /\ pc = "length" => catch_data = processed_data

\* two catch rows were stored under the same lake and species
C7_Witness ==
    /\ pc = "length"
    /\ \E m \in DOMAIN catch_data : \E sp \in DOMAIN catch_data[m] :
          /\ Len(catch_data[m][sp]) >= 2
          /\ catch_data[m][sp][1] # catch_data[m][sp][2]

\* C8 as claimed: the unlinked-record count equals the number of rows
\* read that resolved to no canonical key.
C8_UnlinkedCountsEveryRow ==
    pc \in {"catch_loop", "length_loop"} =>
        unlinked_records = Cardinality({n \in 1..Len(resolved) : resolved[n].via = "none"})

\* The scenario of C5: the registry row 2379 with primary code 12345 and
\* sub-basin code 3, whose name no other registry row carries, and a catch
\* row of species WAE bearing that name.

IsRow2379(row) ==
    /\ row.FISHERIES_WATERBODY_ID = Sample.Id2379
    /\ row.DOW_NBR_PRIMARY = <<"1","2","3","4","5">>
    /\ row.DOW_SUB_BASIN_NBR_PRIMARY = <<"3">>

NameOnlyOf(n) ==
    /\ HasNameKey(primary_file.rows[n].LAKE_NAME)
    /\ \A j \in 1..Len(primary_file.rows) :
          j # n => ~Carries(primary_file.rows[j], NameKey(primary_file.rows[n].LAKE_NAME))

MatchingCatchRows(n) ==
    {c \in 1..Len(catch_file.rows) :
        /\ HasNameKey(catch_file.rows[c].WATER_BODY_NAME)
        /\ NameKey(catch_file.rows[c].WATER_BODY_NAME) = NameKey(primary_file.rows[n].LAKE_NAME)
        /\ catch_file.rows[c].SPECIES_CODE = Sample.WAE}

Holds(list, entry) == \E k \in 1..Len(list) : list[k] = entry

\* C5: end to end.  Once the catch stage has returned, for the registry
\* row 2379 (primary code 12345, sub-basin code 3) and every catch row of
\* species WAE bearing its name, the lake collection holds lake 2379 with
\* map_id 1234503, and the catch data and the written catch artifact hold
\* the row's observation in the WAE list of key 1234503.
C5_EndToEnd ==
    pc \in {"length", "length_loop", "species", "done"} =>
        \A n \in 1..Len(primary_file.rows) :
            IsRow2379(primary_file.rows[n]) /\ NameOnlyOf(n) =>
                \A c \in MatchingCatchRows(n) :
                    /\ \E k \in 1..Len(lakes) :
                          lakes[k].id = Sample.Id2379 /\ lakes[k].map_id = Sample.Key1234503
                    /\ Sample.Key1234503 \in DOMAIN catch_data
                    /\ Sample.WAE \in DOMAIN catch_data[Sample.Key1234503]
                    /\ Holds(catch_data[Sample.Key1234503][Sample.WAE], CatchEntry(catch_file.rows[c]))
                    /\ disk["data/fish_catch.json"].present
                    /\ Sample.Key1234503 \in DOMAIN disk["data/fish_catch.json"].content
                    /\ Sample.WAE \in DOMAIN disk["data/fish_catch.json"].content[Sample.Key1234503]
                    /\ disk["data/lakes.json"].present
                    /\ \E k \in 1..Len(disk["data/lakes.json"].content) :
                          disk["data/lakes.json"].content[k].map_id = Sample.Key1234503

\* the scenario ran to the end with a second registry row present
C5_Witness ==
    /\ pc = "done"
    /\ Len(primary_file.rows) = 2
    /\ \E n \in 1..Len(primary_file.rows) :
          /\ IsRow2379(primary_file.rows[n]) /\ NameOnlyOf(n)
          /\ MatchingCatchRows(n) # {}
    /\ Sample.Key1234503 \in DOMAIN catch_data

\* every name key a registry row carries, and every key of the lookup
CandidateKeys ==
    DOMAIN name_to_map_id_lookup
    \cup {NameKey(primary_file.rows[n].LAKE_NAME) :
            n \in {j \in 1..Len(primary_file.rows) : HasNameKey(primary_file.rows[j].LAKE_NAME)}}
    \cup {NameKey(primary_file.rows[n].ALT_LAKE_NAME) :
            n \in {j \in 1..Len(primary_file.rows) :
                      HasNameKey(primary_file.rows[j].ALT_LAKE_NAME)}}

\* C2: the lookup process_lake_metadata returns holds a name key exactly
\* when the registry records that carry it (as name or alternate name) and
\* have a canonical key have exactly one canonical key among them, and it
\* maps the key to that canonical key.
C2_LookupIffSingleKey ==
    pc # "lake_metadata" =>
        \A k \in CandidateKeys :
            /\ k \in DOMAIN name_to_map_id_lookup <=> Cardinality(KeysCarrying(k)) = 1
            /\ k \in DOMAIN name_to_map_id_lookup =>
                  KeysCarrying(k) = {name_to_map_id_lookup[k]}

\* the lookup was built from a registry with a safe name and an ambiguous one
C2_Witness ==
    /\ pc # "lake_metadata"
    /\ DOMAIN name_to_map_id_lookup # {}
    /\ \E k \in CandidateKeys : Cardinality(KeysCarrying(k)) >= 2

\* C4 as claimed: with the default parameters every row of the primary
\* registry is in the lake output exactly once, in order, whatever the
\* metadata registry holds.
C4_EveryPrimaryRowOnce ==
    pc # "lake_metadata" /\ primary_file.exists =>
        /\ Len(lakes) = Len(primary_file.rows)
        /\ \A n \in 1..Len(lakes) :
              lakes[n].id = get_cleaned_id(primary_file.rows[n].FISHERIES_WATERBODY_ID)

-----------------------------------------------------------------------------
(* The derivation of the canonical key applied to one pair of cells, as    *)
(* the two passes of process_lake_metadata apply it to every row.          *)

MaxCodeLen == 2         \* digits of an enumerated code
PlainCodes == UNION {[1..k -> Inputs.CodeDigits] : k \in 1..MaxCodeLen}
KeyCodes == PlainCodes \cup {Sample.Code12345, Sample.Code100, Sample.Wrapped7, <<" ", "7", " ">>, NaN, Sample.CommaCode13}
                \cup Inputs.UnparsableCodes

InitKey ==
    /\ script = "map_id" /\ pc = "first_pass"
    /\ call \in KeyCodes \X KeyCodes /\ ret = <<>>
    /\ lakes = <<>> /\ name_to_map_id_lookup = EmptyDict
    /\ processed_data = EmptyDict /\ unlinked_records = 0 /\ resolved = <<>>
    /\ catch_data = EmptyDict /\ length_data = EmptyDict /\ species_data = EmptyDict
    /\ disk = NoDisk /\ first_run = [ran |-> FALSE]
    /\ session_state = [start_idx |-> 0, map_markers |-> <<>>, loading_complete |-> FALSE,
                        last_clicked |-> <<>>]
    /\ sentinel_file = [state |-> "missing", ids |-> <<>>]
    /\ border_file = [state |-> "missing", ids |-> <<>>]
    /\ min_lake_size_acres = 0 /\ require_coordinates = FALSE
    /\ primary_file = [exists |-> FALSE, rows |-> <<>>]
    /\ metadata_file = [state |-> "missing", rows |-> <<>>]
    /\ catch_file = [state |-> "missing", rows |-> <<>>]
    /\ length_file = [state |-> "missing", rows |-> <<>>]

key_frame == <<script, first_run, session_state, call, primary_file, metadata_file, sentinel_file,
               border_file, min_lake_size_acres,
               require_coordinates, lakes, name_to_map_id_lookup, catch_file,
               length_file, processed_data, unlinked_records, resolved,
               catch_data, length_data, species_data, disk>>

\* lines 113-120: the first pass derives the key of the row
DeriveFirstPass ==
    /\ script = "map_id" /\ pc = "first_pass"
    /\ ret' = <<MapIdOf(call[1], call[2])>>
    /\ pc' = "second_pass"
    /\ UNCHANGED key_frame

\* lines 161-168: the second pass derives it again for the lake entry
DeriveSecondPass ==
    /\ script = "map_id" /\ pc = "second_pass"
    /\ ret' = Append(ret, MapIdOf(call[1], call[2]))
    /\ pc' = "done"
    /\ UNCHANGED key_frame

NextKey == DeriveFirstPass \/ DeriveSecondPass

SpecKey == InitKey /\ [][NextKey]_vars

\* A code as the specification reads it: a run of decimal digits, possibly
\* inside the ="..." wrapper or between blanks.
Pow10(n) == IF n = 0 THEN 1 ELSE IF n = 1 THEN 10 ELSE IF n = 2 THEN 100
            ELSE IF n = 3 THEN 1000 ELSE IF n = 4 THEN 10000 ELSE 100000
DigitsOfNat(n) == IF n < 10 THEN 1 ELSE IF n < 100 THEN 2 ELSE IF n < 1000 THEN 3
                  ELSE IF n < 10000 THEN 4 ELSE 5
IsCode(text) == text # <<>> /\ AllDigits(text)
CodeText(cell) ==
    IF cell = Sample.Wrapped7 \/ cell = <<" ", "7", " ">> THEN <<"7">> ELSE cell
PresentNumeric(cell) == cell # NaN /\ IsCode(CodeText(cell))

\* C3: when both codes are present and numeric the key is the decimal
\* primary code, unpadded, followed by the sub-basin code zero-padded to two
\* digits, so (12345, 3) gives "1234503"; when a code is missing or does not
\* parse the key is None, so (12345, missing) gives None; the key depends
\* on the pair alone.
C3_KeyOfCodes ==
    ret # <<>> =>
        LET primary == call[1]
            sub_basin == call[2]
            key == ret[1]
            p == NatOfDigits(CodeText(primary))
            s == NatOfDigits(CodeText(sub_basin))
            width == IF DigitsOfNat(s) < 2 THEN 2 ELSE DigitsOfNat(s)
        IN  /\ PresentNumeric(primary) /\ PresentNumeric(sub_basin) =>
                /\ key # None /\ AllDigits(key)
                /\ Len(key) = DigitsOfNat(p) + width
                /\ NatOfDigits(key) = p * Pow10(width) + s
            /\ primary = NaN \/ sub_basin = NaN => key = None
            /\ primary \in Inputs.UnparsableCodes \/ sub_basin \in Inputs.UnparsableCodes => key = None
            /\ call = <<Sample.Code12345, Sample.Code3>> => key = Sample.Key1234503
            /\ call = <<Sample.Code12345, NaN>> => key = None
            /\ \A n \in 1..Len(ret) : ret[n] = key

C3_Witness ==
    /\ pc = "done"
    /\ call = <<Sample.Code12345, <<"3">>>>
    /\ ret = <<Sample.Key1234503, <<"1", "2", "3", "4", "5", "0", "3">>>>

-----------------------------------------------------------------------------
(* The measured values of survey rows: the pipeline over a registry of one *)
(* lake, with catch and length rows that differ by their value cells.      *)



MudRegistryOf(area) ==
    [exists |-> TRUE,
     rows |-> <<PrimaryRow(1, [LAKE_NAME |-> Sample.Mud, DOW_NBR_PRIMARY |-> Sample.Code12345,
                               LAKE_AREA_DOW_ACRES |-> area])>>]

InitValues ==
    /\ InitRun
    /\ min_lake_size_acres = 0 /\ require_coordinates = FALSE
    /\ primary_file \in {MudRegistryOf(area) : area \in Inputs.AreaTokens}
    /\ metadata_file = [state |-> "missing", rows |-> <<>>]
    /\ catch_file = [state |-> "ok", rows |-> <<>>]
    /\ length_file = [state |-> "ok", rows |-> <<>>]

NextValues ==
    \/ ProcessLakeMetadata
    \/ OpenFish("catch", Inputs.CatchCells) \/ RowFish("catch", Inputs.ValueCatchCells) \/ CloseFish("catch")
    \/ OpenFish("length", Inputs.LengthCells) \/ RowFish("length", Inputs.ValueLengthCells) \/ CloseFish("length")
    \/ CreateSpeciesReference

SpecValues == InitValues /\ [][NextValues]_vars

-----------------------------------------------------------------------------
(* preprocess_all_data.py: process_fish_catch_data and                     *)
(* process_fish_length_data, which key the survey rows by their ID column  *)
(* and take no argument from the lake stage that main() runs before them.  *)

\* str.replace(pat, ''): every occurrence, left to right
RECURSIVE Remove(_, _)
Remove(text, pat) ==
    IF Len(text) < Len(pat) THEN text
    ELSE IF SubSeq(text, 1, Len(pat)) = pat
    THEN Remove(SubSeq(text, Len(pat) + 1, Len(text)), pat)
    ELSE <<Head(text)>> \o Remove(Tail(text), pat)

\* lines 294-296: astype(str), then the two replacements
LegacyIdText(raw_id) ==
    IF raw_id = NaN THEN <<"n", "a", "n">>
    ELSE Remove(Remove(raw_id, <<"=", "\"">>), <<"\"">>)

\* lines 317-333 and the test of line 352
LegacyCpue(raw_cpue) ==
    LET cpue_value ==
            IF notna(raw_cpue)
            THEN IF Lower(raw_cpue) \in {<<Sample.InfinitySign>>, Sample.Inf,
                                         <<"i", "n", "f", "i", "n", "i", "t", "y">>}
                 THEN FInf(FALSE)
                 ELSE LET v == PyFloat(raw_cpue) IN IF v = Raised THEN JInt(0) ELSE v
            ELSE JInt(0)
    IN  IF cpue_value = FInf(FALSE) THEN JNull ELSE cpue_value

\* lines 336-348 and 429-443: int(float(value)), 0 when the cell is
\* missing and 0 on ValueError
LegacyCount(raw) ==
    IF notna(raw)
    THEN LET v == PyFloat(raw) IN IF v.t = "num" THEN JInt(PyInt(v)) ELSE JInt(0)
    ELSE JInt(0)

LegacyCell(raw) == IF notna(raw) THEN raw ELSE None

\* lines 350-355
LegacyCatchEntry(row) ==
    [survey_date |-> LegacyCell(row.SURVEY_DATE),
     cpue |-> LegacyCpue(row.CATCH_CPUE),
     total_catch |-> LegacyCount(row.TOTAL_CATCH),
     gear_type |-> LegacyCell(row.GEAR)]

\* lines 418-443 over the inch columns, and lines 449-452
LegacyLengthEntry(row) ==
    [survey_date |-> LegacyCell(row.SURVEY_DATE),
     length_distribution |->
        [range_key \in {RangeKey(LengthCols[c]) : c \in 1..Len(LengthCols)} |->
            LegacyCount(row.buckets[CHOOSE c \in 1..Len(LengthCols) :
                                        RangeKey(LengthCols[c]) = range_key])]]

\* line 305
LegacySkips(row) == LegacyIdText(row.ID) = <<>> \/ row.SPECIES_CODE = NaN


LegacyRow(k, cells) ==
    [ID |-> cells.ID, SPECIES_CODE |-> cells.SPECIES_CODE, SURVEY_DATE |-> Sample.SurveyDates[k],
     CATCH_CPUE |-> Cell(cells, "CATCH_CPUE", NaN),
     TOTAL_CATCH |-> Cell(cells, "TOTAL_CATCH", NaN),
     GEAR |-> IF "CATCH_CPUE" \in DOMAIN cells THEN <<"G", "N">> ELSE NaN,
     buckets |-> Cell(cells, "buckets", <<NaN, NaN>>)]


\* A length file in state "ok" holds at least one row, which the budget
\* of rows keeps for it.
LegacyRowsLeft(data_type_name) ==
    IF data_type_name = "catch" /\ length_file.state = "ok" THEN RowsLeft - 1 ELSE RowsLeft

legacy_frame == <<params, lakes, name_to_map_id_lookup, unlinked_records, resolved,
                  species_data>>

\* lines 264-301; pd.read_csv of a missing file raises, and main() catches it
LegacyOpenCatch ==
    /\ script = "legacy" /\ pc = "catch"
    /\ IF catch_file.state = "missing" THEN pc' = "fatal" /\ catch_data' = catch_data
       ELSE IF catch_file.state = "no_id_col" THEN pc' = "length" /\ catch_data' = EmptyDict
       ELSE pc' = "catch_loop" /\ catch_data' = catch_data
    /\ processed_data' = EmptyDict
    /\ UNCHANGED <<legacy_frame, catch_file, length_file, length_data, disk>>

\* lines 303-357, one row; int(float("inf")) raises OverflowError, which
\* "except ValueError" lets through to main()
LegacyRowCatch ==
    /\ script = "legacy" /\ pc = "catch_loop"
    /\ LegacyRowsLeft("catch") > 0
    /\ \E c \in Inputs.LegacyCatchCells :
         LET row == LegacyRow(Len(catch_file.rows) + 1, c)
             lake_id == LegacyIdText(row.ID)
             species_code == row.SPECIES_CODE
         IN  /\ catch_file' = [catch_file EXCEPT !.rows = Append(catch_file.rows, row)]
             /\ IF LegacySkips(row) THEN pc' = pc /\ processed_data' = processed_data
                ELSE IF CountOverflows(row.TOTAL_CATCH)
                THEN pc' = "fatal" /\ processed_data' = processed_data
                ELSE /\ pc' = pc
                     /\ processed_data' = Appended(WithSlot(processed_data, lake_id, species_code),
                                                   lake_id, species_code, LegacyCatchEntry(row))
    /\ UNCHANGED <<legacy_frame, length_file, catch_data, length_data, disk>>

\* lines 359-366
LegacyCloseCatch ==
    /\ script = "legacy" /\ pc = "catch_loop"
    /\ disk' = [disk EXCEPT !["data/fish_catch.json"] = Written(JsonFish("catch", processed_data))]
    /\ catch_data' = processed_data
    /\ pc' = "length"
    /\ UNCHANGED <<legacy_frame, catch_file, length_file, processed_data, length_data>>

\* lines 371-405; df.iloc[0] of a file without rows raises IndexError
LegacyOpenLength ==
    /\ script = "legacy" /\ pc = "length"
    /\ pc' = IF length_file.state = "ok" THEN "length_loop" ELSE "fatal"
    /\ processed_data' = EmptyDict
    /\ UNCHANGED <<legacy_frame, catch_file, length_file, catch_data, length_data, disk>>

\* lines 407-454, one row
LegacyRowLength ==
    /\ script = "legacy" /\ pc = "length_loop"
    /\ LegacyRowsLeft("length") > 0
    /\ \E c \in Inputs.LegacyLengthCells :
         LET row == LegacyRow(Len(length_file.rows) + 1, c)
             lake_id == LegacyIdText(row.ID)
             species_code == row.SPECIES_CODE
         IN  /\ length_file' = [length_file EXCEPT !.rows = Append(length_file.rows, row)]
             /\ IF \E b \in 1..Len(LengthCols) : CountOverflows(row.buckets[b])
                THEN pc' = "fatal" /\ processed_data' = processed_data
                ELSE /\ pc' = pc
                     /\ processed_data' = Appended(WithSlot(processed_data, lake_id, species_code),
                                                   lake_id, species_code, LegacyLengthEntry(row))
    /\ UNCHANGED <<legacy_frame, catch_file, catch_data, length_data, disk>>

\* lines 456-463, at the end of a file of at least one row
LegacyCloseLength ==
    /\ script = "legacy" /\ pc = "length_loop"
    /\ Len(length_file.rows) >= 1
    /\ disk' = [disk EXCEPT !["data/fish_length.json"] =
                    Written(JsonFish("length", processed_data))]
    /\ length_data' = processed_data
    /\ pc' = "species"
    /\ UNCHANGED <<legacy_frame, catch_file, length_file, processed_data, catch_data>>

InitLegacy ==
    /\ script = "legacy" /\ pc = "catch"
    /\ call = <<>> /\ ret = <<>>
    /\ lakes = <<>> /\ name_to_map_id_lookup = EmptyDict
    /\ processed_data = EmptyDict /\ unlinked_records = 0 /\ resolved = <<>>
    /\ catch_data = EmptyDict /\ length_data = EmptyDict /\ species_data = EmptyDict
    /\ disk = NoDisk /\ first_run = [ran |-> FALSE]
    /\ session_state = [start_idx |-> 0, map_markers |-> <<>>, loading_complete |-> FALSE,
                        last_clicked |-> <<>>]
    /\ sentinel_file = [state |-> "missing", ids |-> <<>>]
    /\ border_file = [state |-> "missing", ids |-> <<>>]
    /\ min_lake_size_acres = 0 /\ require_coordinates = FALSE
    /\ primary_file = [exists |-> FALSE, rows |-> <<>>]
    /\ metadata_file = [state |-> "missing", rows |-> <<>>]
    /\ catch_file \in {[state |-> st, rows |-> <<>>] : st \in {"ok", "missing", "no_id_col"}}
    /\ length_file \in {[state |-> st, rows |-> <<>>] : st \in {"ok", "missing", "empty"}}

NextLegacy ==
    \/ LegacyOpenCatch \/ LegacyRowCatch \/ LegacyCloseCatch
    \/ LegacyOpenLength \/ LegacyRowLength \/ LegacyCloseLength

SpecLegacy == InitLegacy /\ [][NextLegacy]_vars

-----------------------------------------------------------------------------
(* The measured values as the specification states them.                   *)

\* the infinity tokens, in the letter cases the survey rows use
InfinityTokens == {Sample.Inf, <<"I", "n", "f", "i", "n", "i", "t", "y">>, <<Sample.InfinitySign>>}
\* a missing cell and a cell that is no number
UnknownCells == {NaN, <<"x">>}
IsInfinity(v) == v.t \in {"inf", "Infinity"}

CatchArtifact == disk["data/fish_catch.json"]

\* C9 as claimed: in the catch artifact a row whose CPUE text is an
\* infinity token has cpue null, and no cpue of the artifact is a numeric
\* infinity.
C9_InfinityTokenIsNull ==
    script = "preprocess" /\ pc = "length" /\ CatchArtifact.present =>
        \A m \in DOMAIN CatchArtifact.content : \A sp \in DOMAIN CatchArtifact.content[m] :
            \A k \in 1..Len(CatchArtifact.content[m][sp]) :
                LET entry == CatchArtifact.content[m][sp][k]
                    row == StoredRows(m, sp)[k].row
                IN  /\ ~IsInfinity(entry.cpue)
                    /\ row.CATCH_CPUE \in InfinityTokens => entry.cpue = JNull

\* the rows of the catch file that process_fish_catch_data stored under
\* (lake_id, species_code), in file order
LegacyStoredRows(lake_id, species_code) ==
    SelectSeq(catch_file.rows, LAMBDA r : /\ r.SPECIES_CODE = species_code
                                          /\ LegacyIdText(r.ID) = lake_id)

\* C10 as claimed: a missing or unparsable CPUE or total catch is stored
\* as null, never as 0; total catch "0" is stored as the integer 0, and a
\* stored 0 comes from a cell that parses to zero.
C10_UnknownIsNullNeverZero ==
    script = "legacy" /\ pc = "length" /\ CatchArtifact.present =>
        \A m \in DOMAIN CatchArtifact.content : \A sp \in DOMAIN CatchArtifact.content[m] :
            \A k \in 1..Len(CatchArtifact.content[m][sp]) :
                LET entry == CatchArtifact.content[m][sp][k]
                    row == LegacyStoredRows(m, sp)[k]
                IN  /\ row.CATCH_CPUE \in UnknownCells => entry.cpue = JNull
                    /\ row.TOTAL_CATCH \in UnknownCells => entry.total_catch = JNull
                    /\ row.TOTAL_CATCH = <<"0">> => entry.total_catch = JInt(0)
                    /\ entry.total_catch = JInt(0) => row.TOTAL_CATCH = <<"0">>

\* the number a cleaned field holds, float or integer
IsNumber(v, n) == v.t \in {"num", "int"} /\ ~v.neg /\ v.i = n /\ v.f = <<>>

\* C11 as claimed: thousands separators are stripped before parsing, so
\* the text "1,234" gives the number 1234 and not the unknown sentinel, for
\* the lake area, the CPUE and the total catch.
C11_CommaNumberParses ==
    /\ script = "preprocess" /\ pc # "lake_metadata" =>
          \A n \in 1..Len(lakes) :
              primary_file.rows[n].LAKE_AREA_DOW_ACRES = Sample.Comma1234 =>
                  IsNumber(lakes[n].area_acres, 1234)
    /\ script = "preprocess" /\ pc = "length" /\ CatchArtifact.present =>
          \A m \in DOMAIN CatchArtifact.content : \A sp \in DOMAIN CatchArtifact.content[m] :
              \A k \in 1..Len(CatchArtifact.content[m][sp]) :
                  LET entry == CatchArtifact.content[m][sp][k]
                      row == StoredRows(m, sp)[k].row
                  IN  /\ row.CATCH_CPUE = Sample.Comma1234 => IsNumber(entry.cpue, 1234)
                      /\ row.TOTAL_CATCH = Sample.Comma1234 => IsNumber(entry.total_catch, 1234)

\* the plain code a wrapped code or a code with a thousands separator stands for
PlainCodeOf(cell) ==
    IF cell = Sample.Wrapped7 THEN <<"7">> ELSE IF cell = Sample.CommaCode13 THEN <<"1", "3">> ELSE cell

\* C12 as claimed: a code written inside the ="..." wrapper or with a
\* thousands separator gives the canonical key of the plain code.
C12_WrapperAndCommaKeepKey ==
    ret # <<>> /\ (call[1] \in {Sample.Wrapped7, Sample.CommaCode13} \/ call[2] \in {Sample.Wrapped7, Sample.CommaCode13}) =>
        ret[1] = MapIdOf(PlainCodeOf(call[1]), PlainCodeOf(call[2]))

\* C13 as claimed: for numeric codes the last two characters of a
\* canonical key decode to the sub-basin code and the characters before
\* them to the primary code, so that the key determines the pair.
C13_KeyDecodesFixedWidth ==
    ret # <<>> /\ PresentNumeric(call[1]) /\ PresentNumeric(call[2]) /\ ret[1] # None =>
        LET key == ret[1]
        IN  /\ Len(key) >= 3
            /\ NatOfDigits(SubSeq(key, Len(key) - 1, Len(key)))
                   = NatOfDigits(CodeText(call[2]))
            /\ NatOfDigits(SubSeq(key, 1, Len(key) - 2)) = NatOfDigits(CodeText(call[1]))

\* the primary registry with its rows in another order
Reordered(f) ==
    [primary_file EXCEPT !.rows = [k \in 1..Len(primary_file.rows) |-> primary_file.rows[f[k]]]]
IndexOf(file) ==
    Associations(LakeFrame(file, metadata_file, min_lake_size_acres, require_coordinates))

\* C14: name resolution does not depend on the order of the rows of the
\* primary registry: every permutation of the rows gives the lookup that
\* process_lake_metadata returned (same names, same canonical key for each)
\* and the same set of excluded ambiguous names.
C14_OrderIndependent ==
    script = "preprocess" /\ pc # "lake_metadata" /\ primary_file.exists =>
        LET ambiguous == AmbiguousNames(IndexOf(primary_file))
        IN  \A f \in Permutations(1..Len(primary_file.rows)) :
                LET index == IndexOf(Reordered(f))
                IN  /\ AmbiguousNames(index) = ambiguous
                    /\ \A order \in SetOrders :
                          BuildLookup(index, order) = name_to_map_id_lookup

\* a registry of two different records, one name ambiguous and one safe
C14_Witness ==
    /\ script = "preprocess" /\ pc # "lake_metadata"
    /\ Len(primary_file.rows) >= 2
    /\ primary_file.rows[1].LAKE_NAME # primary_file.rows[2].LAKE_NAME
    /\ AmbiguousNames(IndexOf(primary_file)) # {}
    /\ DOMAIN name_to_map_id_lookup # {}

-----------------------------------------------------------------------------
(* data_consolidation.py, and the sources of both programs in the states   *)
(* a run can find them in: not there, unreadable, lacking a column.        *)

\* pd.merge(merged_data, right, on='FISHERIES_WATERBODY_ID', how='left'),
\* lines 38-44 and 48-54: a left row once per right row of its id, once
\* when there is none
RECURSIVE MergeOn(_, _)
MergeOn(rows, ids) ==
    IF rows = <<>> THEN <<>>
    ELSE LET n == Cardinality({j \in 1..Len(ids) :
                                 ids[j] = Head(rows).FISHERIES_WATERBODY_ID})
         IN  [k \in 1..(IF n = 0 THEN 1 ELSE n) |-> Head(rows)] \o MergeOn(Tail(rows), ids)

\* load_and_process_data, lines 5-88.  sentinel_data and border_data are
\* None unless the file was read and has the id column (lines 12-31).
\* Nothing catches the exception of
\* pd.read_csv (line 10) or the KeyError of dropna on a frame without a
\* coordinate column (line 78).
LoadAndProcessData ==
    /\ script = "consolidate" /\ pc = "load_and_process_data"
    /\ IF \/ ~primary_file.exists
          \/ ~HasColumn(primary_file, "LAKE_CENTER_LAT_DD5")
          \/ ~HasColumn(primary_file, "LAKE_CENTER_LONG_DD5")
       THEN /\ pc' = "raised"
            /\ UNCHANGED <<lakes, disk>>
       ELSE LET LoadedIds(file) == IF file.state = "ok" THEN file.ids ELSE <<>>
                merged == MergeOn(MergeOn(primary_file.rows, LoadedIds(sentinel_file)),
                                  LoadedIds(border_file))
                cleaned == [k \in 1..Len(merged) |->
                              [id |-> merged[k].FISHERIES_WATERBODY_ID,
                               name |-> merged[k].LAKE_NAME,
                               latitude |-> to_numeric(merged[k].LAKE_CENTER_LAT_DD5),
                               longitude |-> to_numeric(merged[k].LAKE_CENTER_LONG_DD5)]]
                merged_data == SelectSeq(cleaned, LAMBDA row :
                                   num_notna(row.latitude) /\ num_notna(row.longitude))
            IN  /\ lakes' = merged_data
                /\ disk' = [disk EXCEPT !["consolidated_lake_data.csv"] = Written(merged_data)]
                /\ pc' = "done"
    /\ UNCHANGED <<params, catch_file, length_file, fish_locals, name_to_map_id_lookup,
                   catch_data, length_data, species_data>>


\* the registry that is not there or cannot be read, the registries with
\* all their columns, and one-record registries without the area or the
\* latitude column
SourceRegistries ==
    {[exists |-> FALSE, rows |-> <<>>]} \cup PrimaryFilesOf(Inputs.SourceCells)
    \cup {[exists |-> TRUE, absent |-> {col},
           rows |-> <<PrimaryRow(1, [LAKE_NAME |-> Sample.Mud,
                                     DOW_NBR_PRIMARY |-> Sample.Code12345, col |-> NaN])>>] :
             col \in {"LAKE_AREA_DOW_ACRES", "LAKE_CENTER_LAT_DD5"}}


InitSources ==
    /\ call = <<>> /\ ret = <<>>
    /\ lakes = <<>> /\ name_to_map_id_lookup = EmptyDict
    /\ processed_data = EmptyDict /\ unlinked_records = 0 /\ resolved = <<>>
    /\ catch_data = EmptyDict /\ length_data = EmptyDict /\ species_data = EmptyDict
    /\ disk = NoDisk /\ first_run = [ran |-> FALSE]
    /\ session_state = [start_idx |-> 0, map_markers |-> <<>>, loading_complete |-> FALSE,
                        last_clicked |-> <<>>]
    /\ min_lake_size_acres = 0
    /\ primary_file \in SourceRegistries
    /\ \/ /\ script = "preprocess" /\ pc = "lake_metadata"
          /\ require_coordinates \in BOOLEAN
          /\ metadata_file \in {[state |-> st, rows |-> <<>>] :
                                   st \in {"missing", "unreadable", "no_columns"}}
                \cup {[state |-> "ok",
                       rows |-> <<[FISHERIES_WATERBODY_ID |-> Sample.Id2379,
                                   COUNTY_NAME |-> "Cass"]>>]}
          /\ catch_file \in {[state |-> st, rows |-> <<>>] :
                                st \in {"ok", "missing", "unreadable",
                                       "no_species_col", "no_name_col"}}
          /\ length_file \in {[state |-> st, rows |-> <<>>] : st \in {"ok", "missing", "unreadable"}}
          /\ sentinel_file = [state |-> "missing", ids |-> <<>>]
          /\ border_file = [state |-> "missing", ids |-> <<>>]
       \/ /\ script = "consolidate" /\ pc = "load_and_process_data"
          /\ require_coordinates = FALSE
          /\ metadata_file = [state |-> "missing", rows |-> <<>>]
          /\ catch_file = [state |-> "missing", rows |-> <<>>]
          /\ length_file = [state |-> "missing", rows |-> <<>>]
          /\ sentinel_file \in {[state |-> st, ids |-> <<>>] :
                                   st \in {"missing", "unreadable", "no_id_col"}}
                \cup {[state |-> "ok", ids |-> <<Sample.Id2379, Sample.Id2379>>]}
          /\ border_file \in {[state |-> st, ids |-> <<>>] :
                                 st \in {"missing", "unreadable", "no_id_col"}}
                \cup {[state |-> "ok", ids |-> <<Sample.Id2379>>]}

NextSources ==
    \/ ProcessLakeMetadata
    \/ OpenFish("catch", Inputs.CatchCells) \/ RowFish("catch", Inputs.SourceCatchCells) \/ CloseFish("catch")
    \/ OpenFish("length", Inputs.LengthCells) \/ RowFish("length", Inputs.LengthCells) \/ CloseFish("length")
    \/ CreateSpeciesReference
    \/ LoadAndProcessData

SpecSources == InitSources /\ [][NextSources]_vars

-----------------------------------------------------------------------------
(* C15: a second run over unchanged inputs                                 *)

SecondRunOver == first_run.ran /\ pc \in {"done", "fatal"}

\* C15: when main() has been run a second time over the same input files,
\* whatever order the sets iterate in, it ends as the first run ended, the
\* four artifacts in data/ are what the first run left, and the lake,
\* catch, length and species values it produced are those of the first run.
C15_SecondRunSameOutput ==
    SecondRunOver =>
        /\ pc = first_run.pc
        /\ disk = first_run.disk
        /\ lakes = first_run.lakes
        /\ catch_data = first_run.catch_data
        /\ length_data = first_run.length_data
        /\ species_data = first_run.species_data

\* a second run that linked survey rows and wrote all four artifacts
C15_Witness ==
    /\ SecondRunOver /\ pc = "done"
    /\ DOMAIN name_to_map_id_lookup # {}
    /\ DOMAIN catch_data # {}
    /\ disk["data/fish_catch.json"] # Absent
    /\ Len(lakes) >= 2

-----------------------------------------------------------------------------
(* C16-C18, C20: the sources a run finds missing, unreadable or short of a *)
(* column, and the coordinate filter                                       *)

Unavailable == {"missing", "unreadable"}
RunOver == pc \in {"done", "fatal", "raised"}

\* the identifier under which a program outputs a registry row
OutputId(row) ==
    IF script = "preprocess" THEN get_cleaned_id(row.FISHERIES_WATERBODY_ID)
    ELSE row.FISHERIES_WATERBODY_ID

\* the output lakes that stand for the n-th row of the primary registry
OutputOf(n) == {m \in 1..Len(lakes) : lakes[m].id = OutputId(primary_file.rows[n])}

\* C16 as claimed: when the primary registry has been loaded with all its
\* columns, the caller asked for no filter, and an auxiliary source
\* (metadata registry, catch or length file; sentinel or border registry)
\* is missing or unreadable, the run ends without failing, every primary
\* lake is in the output, and the county of every lake is an "Unknown ..."
\* marker when it is the metadata registry that is unavailable.
C16_MissingSourceSkipped ==
    LET skipped ==
            IF script = "preprocess"
            THEN \/ metadata_file.state \in Unavailable
                 \/ catch_file.state \in Unavailable
                 \/ length_file.state \in Unavailable
            ELSE sentinel_file.state \in Unavailable \/ border_file.state \in Unavailable
    IN  /\ script \in {"preprocess", "consolidate"} /\ RunOver
        /\ primary_file.exists /\ "absent" \notin DOMAIN primary_file
        /\ ~require_coordinates /\ skipped
        => /\ pc = "done"
           /\ \A n \in 1..Len(primary_file.rows) : OutputOf(n) # {}
           /\ script = "preprocess" /\ metadata_file.state \in Unavailable =>
                 /\ disk["data/lakes.json"].present
                 /\ \A m \in 1..Len(lakes) :
                       lakes[m].county \in {"Unknown (Metadata Missing)",
                                            "Unknown (Metadata Error)"}

\* a source read without a column the stage expects
LacksColumn ==
    IF script = "preprocess"
    THEN \/ primary_file.exists /\ "absent" \in DOMAIN primary_file
         \/ metadata_file.state = "no_columns"
         \/ catch_file.state \in {"no_species_col", "no_name_col"}
    ELSE \/ primary_file.exists /\ "absent" \in DOMAIN primary_file
         \/ sentinel_file.state = "no_id_col"
         \/ border_file.state = "no_id_col"

\* C17 as claimed: when a source lacks an expected column, no exception
\* leaves a stage function: the run ends with every stage having returned.
C17_AbsentColumnNeverRaises ==
    script \in {"preprocess", "consolidate"} /\ RunOver /\ LacksColumn => pc = "done"

\* C18 as claimed: a run is aborted exactly when the primary registry
\* cannot be loaded, and such a run leaves no artifact.
C18_FatalIffNoPrimary ==
    script \in {"preprocess", "consolidate"} /\ RunOver =>
        /\ pc \in {"fatal", "raised"} <=> ~primary_file.exists
        /\ ~primary_file.exists => disk = NoDisk

\* C20 as claimed: without require_coordinates every primary lake whose
\* latitude or longitude cell is empty is output, with a null coordinate;
\* with require_coordinates no output lake has a null latitude or
\* longitude.
C20_CoordinatePolicy ==
    script \in {"preprocess", "consolidate"} /\ pc = "done" /\ primary_file.exists =>
        IF require_coordinates
        THEN \A m \in 1..Len(lakes) : lakes[m].latitude # JNull /\ lakes[m].longitude # JNull
        ELSE \A n \in 1..Len(primary_file.rows) :
                \/ primary_file.rows[n].LAKE_CENTER_LAT_DD5 = NaN
                \/ primary_file.rows[n].LAKE_CENTER_LONG_DD5 = NaN
                => \E m \in OutputOf(n) :
                      lakes[m].latitude = JNull \/ lakes[m].longitude = JNull

-----------------------------------------------------------------------------
(* C19: the species reference                                              *)

\* the species codes of the rows of the catch file, cleaned, the empty
\* cells left out
ObservedCodes ==
    {get_cleaned_id(catch_file.rows[k].SPECIES_CODE) :
        k \in {j \in 1..Len(catch_file.rows) : catch_file.rows[j].SPECIES_CODE # NaN}}

\* an entry with a name and a scientific name, and nothing else
WellFormed(entry) == DOMAIN entry = {"name", "scientific_name"}

\* the placeholder entry of a code: "Species {code}"
Placeholder(code) == [name |-> <<"Species ">> \o code, scientific_name |-> <<"Unknown">>]

\* C19 as claimed: the species reference written by a run holds the
\* builtin table, extended with a "Species {code}" placeholder for every
\* observed code the table does not have, and every entry has a name and a
\* scientific name.
C19_BuiltinExtended ==
    script = "preprocess" /\ pc = "done" =>
        /\ \A code \in DOMAIN species_mapping :
              code \in DOMAIN species_data /\ species_data[code] = species_mapping[code]
        /\ \A code \in ObservedCodes \ DOMAIN species_mapping :
              code \in DOMAIN species_data /\ species_data[code] = Placeholder(code)
        /\ \A code \in DOMAIN species_data : WellFormed(species_data[code])

\* C19 amended: the species reference is the builtin table when the catch
\* file is missing, unreadable or has no species column; otherwise it holds
\* the species codes observed in the catch file and no other, each with its
\* builtin entry when the table has the code and with the placeholder
\* "Species {code}" when not.  Every entry has a name and a scientific
\* name, and data/fish_species.json holds the reference.
C19_BuiltinOrObserved ==
    script = "preprocess" /\ pc = "done" =>
        /\ IF catch_file.state \in {"missing", "unreadable", "no_species_col"}
           THEN species_data = species_mapping
           ELSE /\ DOMAIN species_data = ObservedCodes
                /\ \A code \in ObservedCodes :
                      species_data[code] = IF code \in DOMAIN species_mapping
                                           THEN species_mapping[code]
                                           ELSE Placeholder(code)
        /\ \A code \in DOMAIN species_data : WellFormed(species_data[code])
        /\ disk["data/fish_species.json"] = Written(species_data)

\* a run whose catch file held a builtin code and an unrecognised one
C19_Witness ==
    /\ script = "preprocess" /\ pc = "done" /\ catch_file.state = "ok"
    /\ DOMAIN species_data = {Sample.WAE, <<"X","Y","Z">>}
    /\ species_data[<<"X","Y","Z">>].name = <<"Species ", "X", "Y", "Z">>

-----------------------------------------------------------------------------
(* process_lake_metadata called with a size or a coordinate filter, and    *)
(* the survey stages after it.                                             *)


InitFilters ==
    /\ InitRun
    /\ \E filter \in {<<0, FALSE>>, <<100, FALSE>>, <<0, TRUE>>} :
          min_lake_size_acres = filter[1] /\ require_coordinates = filter[2]
    /\ primary_file \in PrimaryFilesOf(Inputs.FilterCells)
    /\ metadata_file = [state |-> "missing", rows |-> <<>>]
    /\ catch_file = [state |-> "ok", rows |-> <<>>]
    /\ length_file = [state |-> "ok", rows |-> <<>>]

SpecFilters ==
    InitFilters /\ [][\/ ProcessLakeMetadata
                      \/ OpenFish("catch", Inputs.SourceCatchCells)
                      \/ RowFish("catch", Inputs.SourceCatchCells)
                      \/ CloseFish("catch")
                      \/ OpenFish("length", Inputs.LengthCells)
                      \/ RowFish("length", Inputs.LengthCells)
                      \/ CloseFish("length")
                      \/ CreateSpeciesReference]_vars

-----------------------------------------------------------------------------
(* C21: the stages of one run                                              *)

\* C21: the stages run in sequence.  At the step that reads the first
\* survey row of a file the safe-name lookup already is the one decided
\* over the whole primary registry (every name key that the records of
\* the registry carry with exactly one canonical key, and no other), and
\* no step after the lake stage changes the lookup.
C21_StagesInSequence ==
    [][/\ resolved = <<>> /\ resolved' # <<>> =>
             \A k \in CandidateKeys :
                k \in DOMAIN name_to_map_id_lookup <=> Cardinality(KeysCarrying(k)) = 1
       /\ pc # "lake_metadata" => name_to_map_id_lookup' = name_to_map_id_lookup]_vars

\* a finished run that linked catch rows against a registry of two records
C21_Witness ==
    /\ script = "preprocess" /\ pc = "done"
    /\ Len(primary_file.rows) >= 2
    /\ DOMAIN catch_data # {} /\ Len(catch_file.rows) >= 2

-----------------------------------------------------------------------------
(* C22, C25, C27: the lookup under the filters, and what a name stands for *)

\* C22 as claimed: whatever the size bound and the coordinate requirement,
\* a name key that two records of the primary registry carry with distinct
\* canonical keys is not in the safe-name lookup.
C22_SafetyOverWholeTable ==
    script = "preprocess" /\ pc # "lake_metadata" =>
        \A k \in CandidateKeys :
            Cardinality(KeysCarrying(k)) >= 2 => k \notin DOMAIN name_to_map_id_lookup

\* the canonical keys of the lakes of the lake collection
LakeKeys == {lakes[m].map_id : m \in 1..Len(lakes)} \ {None}

\* C25: under every filter, every lake key of the catch data and of the
\* length data, while a survey stage fills them and once returned, is the
\* non-null map_id of a lake of the lake collection of the same run.
C25_SurveyKeysAreLakeKeys ==
    script = "preprocess" /\ pc # "lake_metadata" =>
        /\ DOMAIN processed_data \subseteq LakeKeys
        /\ DOMAIN catch_data \subseteq LakeKeys
        /\ DOMAIN length_data \subseteq LakeKeys

\* a finished run under a filter that removed a record, with catch and
\* length data
C25_Witness ==
    /\ script = "preprocess" /\ pc = "done"
    /\ min_lake_size_acres > 0 \/ require_coordinates
    /\ Len(lakes) < Len(primary_file.rows)
    /\ DOMAIN catch_data # {} /\ DOMAIN length_data # {}

\* the waterbody ids of the registry records that carry a name key
IdsCarrying(k) ==
    {get_cleaned_id(primary_file.rows[n].FISHERIES_WATERBODY_ID) :
        n \in {j \in 1..Len(primary_file.rows) : Carries(primary_file.rows[j], k)}}

\* C27: a survey row is linked by name only when the name identifies one
\* registry record: a name key that records with two different waterbody
\* ids carry links no survey row, whether or not both records have a
\* canonical key.
C27_NameIdentifiesOneRecord ==
    script = "preprocess" =>
        \A n \in Linked : Cardinality(IdsCarrying(LinkName(resolved[n]))) <= 1

\* C27 as the code has it: a name key that two registry records with
\* different waterbody ids and two different canonical keys carry links no
\* survey row; a record without a canonical key does not count against
\* the name.
C27_NameIdentifiesOneKey ==
    script = "preprocess" =>
        LET keys == [j \in 1..Len(primary_file.rows) |-> RowMapId(primary_file.rows[j])]
            ids == [j \in 1..Len(primary_file.rows) |->
                      get_cleaned_id(primary_file.rows[j].FISHERIES_WATERBODY_ID)]
        IN  \A n \in Linked :
              \A i, j \in {m \in 1..Len(primary_file.rows) :
                              Carries(primary_file.rows[m], LinkName(resolved[n]))} :
                 ids[i] # ids[j] => keys[i] = None \/ keys[j] = None \/ keys[i] = keys[j]

\* a survey row was linked through a name that two records with different
\* waterbody ids carry
C27_Witness ==
    /\ script = "preprocess"
    /\ \E n \in Linked : Cardinality(IdsCarrying(LinkName(resolved[n]))) >= 2

-----------------------------------------------------------------------------
(* C28: slots of the survey data                                           *)

\* C28: in the catch and the length data that process_fish_data returns,
\* every lake key holds at least one species and every species list holds
\* at least one observation.
C28_NoEmptySlot ==
    script = "preprocess" =>
        \A data \in {catch_data, length_data} :
            \A m \in DOMAIN data :
                /\ DOMAIN data[m] # {}
                /\ \A sp \in DOMAIN data[m] : data[m][sp] # <<>>

-----------------------------------------------------------------------------
(* The warnings of the record-level conversions: the survey stages of      *)
(* preprocess_all_data.py and read_sd_file of pls_processor.py, each over   *)
(* a file of records read one by one.  ret is what the stage has printed.  *)

MaxRecords == 6         \* records of a file
max_warnings == 10

\* lines 328-333 and 342-347: a warning below the threshold, one notice at
\* the threshold, nothing above it
Warn(log) ==
    IF log.warning_count < max_warnings
    THEN [log EXCEPT !.warnings = @ + 1, !.warning_count = @ + 1]
    ELSE IF log.warning_count = max_warnings
    THEN [log EXCEPT !.notices = @ + 1, !.warning_count = @ + 1]
    ELSE log

\* lines 317-348 of process_fish_catch_data: float() of the CPUE cell, then
\* int(float()) of the TOTAL_CATCH cell, with one counter for both
CatchRowWarnings(log, row) ==
    LET cpue_fails == /\ notna(row.CATCH_CPUE)
                      /\ Lower(row.CATCH_CPUE) \notin {<<Sample.InfinitySign>>, Sample.Inf,
                                                        <<"i", "n", "f", "i", "n", "i", "t", "y">>}
                      /\ PyFloat(row.CATCH_CPUE) = Raised
        count_fails == notna(row.TOTAL_CATCH) /\ PyFloat(row.TOTAL_CATCH).t \in {"raised", "nan"}
        after_cpue == IF cpue_fails THEN Warn(log) ELSE log
    IN  IF count_fails THEN Warn(after_cpue) ELSE after_cpue

\* line 432: the cell repeats a column header
IsHeaderValue(value) ==
    \/ \E k \in 1..Len(value) : value[k] \in {"\"", "'"}
    \/ \E k \in 1..(Len(value) - 3) : SubSeq(Lower(value), k, k + 3) = <<"i", "n", "c", "h">>

\* lines 429-443 of process_fish_length_data: every length column of the
\* row, a warning for each cell that int(float()) rejects
RECURSIVE LengthRowWarnings(_, _, _)
LengthRowWarnings(log, row, c) ==
    IF c > Len(LengthCols) THEN log
    ELSE LET value == row.buckets[c]
             fails == /\ notna(value) /\ ~IsHeaderValue(value)
                      /\ PyFloat(value).t \in {"raised", "nan"}
         IN  LengthRowWarnings(IF fails THEN [log EXCEPT !.warnings = @ + 1] ELSE log, row, c + 1)

InitWarnings ==
    /\ script = "warnings" /\ pc \in {"catch_rows", "length_rows", "sd_records"}
    /\ call = <<>>
    /\ lakes = <<>> /\ name_to_map_id_lookup = EmptyDict
    /\ processed_data = EmptyDict /\ unlinked_records = 0 /\ resolved = <<>>
    /\ catch_data = EmptyDict /\ length_data = EmptyDict /\ species_data = EmptyDict
    /\ disk = NoDisk /\ first_run = [ran |-> FALSE]
    /\ session_state = [start_idx |-> 0, map_markers |-> <<>>, loading_complete |-> FALSE,
                        last_clicked |-> <<>>]
    /\ sentinel_file = [state |-> "missing", ids |-> <<>>]
    /\ border_file = [state |-> "missing", ids |-> <<>>]
    /\ ret = [read |-> 0, warning_count |-> 0, warnings |-> 0, notices |-> 0, size |-> 256]
    /\ min_lake_size_acres = 0 /\ require_coordinates = FALSE
    /\ primary_file = [exists |-> FALSE, rows |-> <<>>]
    /\ metadata_file = [state |-> "missing", rows |-> <<>>]
    /\ catch_file = [state |-> "ok", rows |-> <<>>]
    /\ length_file = [state |-> "ok", rows |-> <<>>]

view_frame == <<script, first_run, primary_file, metadata_file, sentinel_file,
                border_file, min_lake_size_acres,
                require_coordinates, lakes, name_to_map_id_lookup, catch_file,
                length_file, processed_data, unlinked_records, resolved,
                catch_data, length_data, species_data, disk>>
warn_frame == <<view_frame, session_state>>

\* process_fish_catch_data, lines 303-348, one row
CatchRowConverted ==
    /\ script = "warnings" /\ pc = "catch_rows"
    /\ ret.read < MaxRecords
    /\ \E c \in [ID : {Sample.Id2379}, SPECIES_CODE : {Sample.WAE},
                  CATCH_CPUE : {<<"1", ".", "5">>, <<"x">>, Sample.Inf},
                  TOTAL_CATCH : {<<"0">>, <<"x">>, NaN}] :
         /\ call' = <<LegacyRow(1, c)>>
         /\ ret' = [CatchRowWarnings(ret, LegacyRow(1, c)) EXCEPT !.read = @ + 1]
    /\ UNCHANGED <<warn_frame, pc>>

\* process_fish_length_data, lines 407-443, one row
LengthRowConverted ==
    /\ script = "warnings" /\ pc = "length_rows"
    /\ ret.read < MaxRecords
    /\ \E c \in [ID : {Sample.Id2379}, SPECIES_CODE : {Sample.WAE},
                  buckets : {<<<<"4">>, NaN>>, <<<<"x">>, <<"0">>>>, <<<<"x">>, <<"x">>>>,
                             <<<<"6", "\"">>, <<"0">>>>}] :
         /\ call' = <<LegacyRow(1, c)>>
         /\ ret' = [LengthRowWarnings(ret, LegacyRow(1, c), 1) EXCEPT !.read = @ + 1]
    /\ UNCHANGED <<warn_frame, pc>>

\* read_sd_file, lines 34-53, one turn of the loop: f.read(256) gives a
\* whole record, or what is left of the file, and nothing after that; a
\* record of fewer than 16 bytes fails to unpack
SdRecordRead ==
    /\ script = "warnings" /\ pc = "sd_records"
    /\ ret.read < MaxRecords
    /\ \E size \in IF ret.size = 256 THEN {256, 100, 8, 0} ELSE {0} :
         /\ call' = <<size>>
         /\ IF size = 0 THEN pc' = "done" /\ ret' = [ret EXCEPT !.size = 0]
            ELSE /\ pc' = pc
                 /\ ret' = [ret EXCEPT !.read = @ + 1, !.size = size,
                                       !.warnings = IF size < 16 THEN @ + 1 ELSE @]
    /\ UNCHANGED warn_frame

SpecWarnings ==
    InitWarnings /\ [][CatchRowConverted \/ LengthRowConverted \/ SdRecordRead]_vars

\* C23: whatever the number of malformed records, a stage prints at most
\* max_warnings conversion warnings and at most one suppression notice.
C23_WarningsBounded ==
    script = "warnings" => ret.warnings <= max_warnings /\ ret.notices <= 1

-----------------------------------------------------------------------------
(* The files the stages read and write: main() of                          *)
(* preprocess_all_data_no_fish_dupes.py, and process_geopackage.py run as  *)
(* a program of its own on the same directories.  call is the set of files *)
(* that exist, ret records which stage has read and written which path.    *)

AssetFiles ==
    [primary_xls |-> "attached_assets/fisheries_lake_data.xls",
     primary |-> "attached_assets/fisheries_lake_data.csv",
     metadata_xls |-> "attached_assets/LAKE_METADATA_2024.xls",
     metadata |-> "attached_assets/LAKE_METADATA_2024.csv",
     hydro_xls |-> "attached_assets/Hydro_Export.xls",
     hydro |-> "attached_assets/Hydro_Export.csv",
     catch |-> "attached_assets/GLOBAL_CATCH_FILE.CSV",
     length |-> "attached_assets/MEGA_LENGTH_CSV_FILE.CSV",
     gpkg |-> "attached_assets/gpkg_water_dnr_hydrography/water_dnr_hydrography_uncompressed.gpkg",
     geojson |-> "data/lakes.geojson", tiles |-> "data/lake_tiles.mbtiles",
     temp |-> "data/temp_lakes_for_tiles.geojson"]

AllPaths == {AssetFiles[f] : f \in DOMAIN AssetFiles} \cup DOMAIN NoDisk

\* the stage is entered in the record of every path it reads and writes
Logged(log, stage, reads, writes) ==
    [log EXCEPT !.readers = [p \in AllPaths |-> IF p \in reads THEN @[p] \cup {stage} ELSE @[p]],
                !.writers = [p \in AllPaths |-> IF p \in writes THEN @[p] \cup {stage} ELSE @[p]]]

InitStages ==
    /\ script = "stages" /\ pc = "process_excel_files"
    /\ call \in SUBSET {AssetFiles.primary_xls, AssetFiles.primary, AssetFiles.metadata_xls,
                         AssetFiles.hydro_xls, AssetFiles.catch, AssetFiles.length, AssetFiles.gpkg}
    /\ ret = [readers |-> [p \in AllPaths |-> {}], writers |-> [p \in AllPaths |-> {}],
              lookup |-> FALSE, geopackage |-> "idle"]
    /\ lakes = <<>> /\ name_to_map_id_lookup = EmptyDict
    /\ processed_data = EmptyDict /\ unlinked_records = 0 /\ resolved = <<>>
    /\ catch_data = EmptyDict /\ length_data = EmptyDict /\ species_data = EmptyDict
    /\ disk = NoDisk /\ first_run = [ran |-> FALSE]
    /\ session_state = [start_idx |-> 0, map_markers |-> <<>>, loading_complete |-> FALSE,
                        last_clicked |-> <<>>]
    /\ sentinel_file = [state |-> "missing", ids |-> <<>>]
    /\ border_file = [state |-> "missing", ids |-> <<>>]
    /\ min_lake_size_acres = 0 /\ require_coordinates = FALSE
    /\ primary_file = [exists |-> FALSE, rows |-> <<>>]
    /\ metadata_file = [state |-> "missing", rows |-> <<>>]
    /\ catch_file = [state |-> "missing", rows |-> <<>>]
    /\ length_file = [state |-> "missing", rows |-> <<>>]

\* process_excel_files, lines 275-281, with convert_excel_to_csv, lines
\* 37-56: every workbook of attached_assets is read and, unless reading it
\* fails, written as <stem>.csv beside it
ProcessExcelFiles ==
    /\ script = "stages" /\ pc = "process_excel_files"
    /\ LET excel_files == call \cap {AssetFiles.primary_xls, AssetFiles.metadata_xls,
                                      AssetFiles.hydro_xls}
           csv_file_path == [f \in excel_files |->
                               IF f = AssetFiles.primary_xls THEN AssetFiles.primary
                               ELSE IF f = AssetFiles.metadata_xls THEN AssetFiles.metadata
                               ELSE AssetFiles.hydro]
       IN  \E converted \in SUBSET excel_files :
              /\ call' = call \cup {csv_file_path[f] : f \in converted}
              /\ ret' = Logged(ret, "process_excel_files", excel_files,
                               {csv_file_path[f] : f \in converted})
    /\ pc' = "process_lake_metadata"
    /\ UNCHANGED warn_frame

\* process_lake_metadata, lines 73-94 and 176-178: the registry, the
\* metadata registry when it exists, and data/lakes.json unless the
\* registry is missing or unreadable; the lookup may come out empty
ProcessLakeMetadataFiles ==
    /\ script = "stages" /\ pc = "process_lake_metadata"
    /\ \E readable \in BOOLEAN, lookup \in BOOLEAN :
         IF AssetFiles.primary \notin call THEN ret' = ret /\ ~readable /\ ~lookup
         ELSE IF ~readable
         THEN ret' = Logged(ret, "process_lake_metadata", {AssetFiles.primary}, {}) /\ ~lookup
         ELSE ret' = [Logged(ret, "process_lake_metadata",
                             {AssetFiles.primary} \cup (call \cap {AssetFiles.metadata}),
                             {"data/lakes.json"}) EXCEPT !.lookup = lookup]
    /\ pc' = "process_fish_catch_data"
    /\ UNCHANGED <<warn_frame, call>>

\* process_fish_data, lines 188-200 and 242-245: nothing is written when
\* the file is missing, the lookup is empty, or the file cannot be used
ProcessFishDataFiles(data_type_name) ==
    /\ script = "stages"
    /\ pc = IF data_type_name = "catch" THEN "process_fish_catch_data"
            ELSE "process_fish_length_data"
    /\ \E usable \in BOOLEAN :
         IF AssetFiles[data_type_name] \notin call \/ ~ret.lookup THEN ret' = ret /\ ~usable
         ELSE ret' = Logged(ret, pc, {AssetFiles[data_type_name]},
                            IF usable THEN {FishStage(data_type_name).path} ELSE {})
    /\ pc' = IF data_type_name = "catch" THEN "process_fish_length_data"
             ELSE "create_species_reference"
    /\ UNCHANGED <<warn_frame, call>>

\* create_species_reference, lines 249-273
CreateSpeciesReferenceFiles ==
    /\ script = "stages" /\ pc = "create_species_reference"
    /\ ret' = Logged(ret, "create_species_reference", call \cap {AssetFiles.catch},
                     {"data/fish_species.json"})
    /\ pc' = "done"
    /\ UNCHANGED <<warn_frame, call>>

\* process_geopackage of process_geopackage.py, lines 80-283, run at any
\* moment: reading a missing package raises; a package without lakes ends
\* the function before anything is written
ProcessGeopackage ==
    /\ script = "stages" /\ ret.geopackage = "idle"
    /\ \E has_lakes \in BOOLEAN :
         IF AssetFiles.gpkg \notin call
         THEN ret' = [ret EXCEPT !.geopackage = "raised"] /\ ~has_lakes
         ELSE IF ~has_lakes
         THEN ret' = [Logged(ret, "process_geopackage", {AssetFiles.gpkg}, {})
                         EXCEPT !.geopackage = "done"]
         ELSE ret' = [Logged(ret, "process_geopackage", {AssetFiles.gpkg},
                             {AssetFiles.geojson, "data/lakes.json", AssetFiles.temp,
                              AssetFiles.tiles})
                         EXCEPT !.geopackage = "done"]
    /\ UNCHANGED <<warn_frame, call, pc>>

SpecStages ==
    InitStages /\ [][\/ ProcessExcelFiles \/ ProcessLakeMetadataFiles
                     \/ ProcessFishDataFiles("catch") \/ ProcessFishDataFiles("length")
                     \/ CreateSpeciesReferenceFiles \/ ProcessGeopackage]_vars

\* C24: every path has at most one writing stage, and no stage writes a
\* path that a stage reads as a source.
C24_OneWriterNoSourceWritten ==
    script = "stages" =>
        \A p \in AllPaths :
            /\ Cardinality(ret.writers[p]) <= 1
            /\ ret.writers[p] # {} => ret.readers[p] = {}

-----------------------------------------------------------------------------
(* C26: main() run again after the sources have changed: the registry is   *)
(* replaced, a survey file appears or disappears; data/ keeps what the     *)
(* first run wrote.                                                        *)

RunAgainChanged ==
    /\ script = "preprocess" /\ pc \in {"done", "fatal"}
    /\ ~first_run.ran
    /\ first_run' = [ran |-> TRUE, pc |-> pc, disk |-> disk, lakes |-> lakes,
                     catch_data |-> catch_data, length_data |-> length_data,
                     species_data |-> species_data]
    /\ primary_file' \in {MudRegistryOf(<<"2", "0", "0">>),
                          [MudRegistryOf(<<"2", "0", "0">>) EXCEPT
                              !.rows[1].DOW_NBR_PRIMARY = Sample.Code7],
                          [exists |-> FALSE, rows |-> <<>>]}
    /\ catch_file' \in {[state |-> st, rows |-> <<>>] : st \in {"ok", "missing", "unreadable"}}
    /\ length_file' \in {[state |-> st, rows |-> <<>>] : st \in {"ok", "missing"}}
    /\ pc' = "lake_metadata"
    /\ lakes' = <<>> /\ name_to_map_id_lookup' = EmptyDict
    /\ processed_data' = EmptyDict /\ unlinked_records' = 0 /\ resolved' = <<>>
    /\ catch_data' = EmptyDict /\ length_data' = EmptyDict /\ species_data' = EmptyDict
    /\ UNCHANGED <<script, call, ret, metadata_file, sentinel_file, border_file,
                   min_lake_size_acres, require_coordinates, disk, session_state>>

InitRuns ==
    /\ InitRun
    /\ min_lake_size_acres = 0 /\ require_coordinates = FALSE
    /\ primary_file \in {MudRegistryOf(<<"2", "0", "0">>), [exists |-> FALSE, rows |-> <<>>]}
    /\ metadata_file = [state |-> "missing", rows |-> <<>>]
    /\ catch_file \in {[state |-> st, rows |-> <<>>] : st \in {"ok", "missing"}}
    /\ length_file \in {[state |-> st, rows |-> <<>>] : st \in {"ok", "missing"}}

SpecRuns == InitRuns /\ [][Next \/ RunAgainChanged]_vars

\* the canonical keys of the lake collection in data/lakes.json
LakeKeysOnDisk ==
    {disk["data/lakes.json"].content[m].map_id :
        m \in 1..Len(disk["data/lakes.json"].content)}

\* C26: once a run that followed another has ended and written
\* data/lakes.json, the catch and the length artifact in data/ are those
\* this run wrote, and each of their lake keys is the map_id of a lake of
\* data/lakes.json.
C26_SurveyArtifactsOfLastRun ==
    SecondRunOver /\ pc = "done" /\ disk["data/lakes.json"] = Written(JsonLakes(lakes))
                  /\ primary_file.exists =>
        /\ disk["data/fish_catch.json"].present =>
              /\ disk["data/fish_catch.json"] = Written(JsonFish("catch", catch_data))
              /\ DOMAIN disk["data/fish_catch.json"].content \subseteq LakeKeysOnDisk
        /\ disk["data/fish_length.json"].present =>
              /\ disk["data/fish_length.json"] = Written(JsonFish("length", length_data))
              /\ DOMAIN disk["data/fish_length.json"].content \subseteq LakeKeysOnDisk

-----------------------------------------------------------------------------
(* src/main.py, the viewer: one action per run of the script, which        *)
(* Streamlit starts again on st.rerun() and on every interaction.  call is *)
(* what the widgets hold (the area slider, the click the map component     *)
(* reports), ret is the map the last run that reached st_folium displayed, *)
(* and last_clicked is <<>> for None.                                     *)

BATCH_SIZE == 50
MaxViewerLakes == 120   \* lakes of the table that load_data() returns
MaxInteractions == 2    \* times the user touches the page

\* The table lists its lakes by ascending area, the k-th at coordinate k;
\* no lake has an area between 61 and 80 acres.
AreaOf(k) == IF k <= 60 THEN k ELSE k + 20
SliderStops == {1, 31, 61, 80, MaxViewerLakes + 20}

\* lines 54-57: the lakes within the range of the slider, in table order
filtered_df(area_range) ==
    LET within == {k \in 1..MaxViewerLakes :
                      area_range[1] <= AreaOf(k) /\ AreaOf(k) <= area_range[2]}
    IN  IF within = {} THEN <<>>
        ELSE LET first == CHOOSE k \in within : \A j \in within : k <= j
             IN  [j \in 1..Cardinality(within) |-> first + j - 1]

\* lines 147-152: the position in the filtered table of the lake closest
\* to the click
ClosestLakeIdx(filtered, clicked) ==
    IF clicked <= filtered[1] THEN 0
    ELSE IF clicked >= filtered[Len(filtered)] THEN Len(filtered) - 1
    ELSE clicked - filtered[1]

InitViewer ==
    /\ script = "viewer" /\ pc = "rerun"
    /\ call = [area_range |-> <<1, MaxViewerLakes + 20>>, last_clicked |-> <<>>,
               interactions |-> 0]
    /\ ret = [shown |-> FALSE, markers |-> {}]
    /\ session_state = [start_idx |-> 0, map_markers |-> <<>>, loading_complete |-> FALSE,
                        last_clicked |-> <<>>]
    /\ lakes = <<>> /\ name_to_map_id_lookup = EmptyDict
    /\ processed_data = EmptyDict /\ unlinked_records = 0 /\ resolved = <<>>
    /\ catch_data = EmptyDict /\ length_data = EmptyDict /\ species_data = EmptyDict
    /\ disk = NoDisk /\ first_run = [ran |-> FALSE]
    /\ sentinel_file = [state |-> "missing", ids |-> <<>>]
    /\ border_file = [state |-> "missing", ids |-> <<>>]
    /\ min_lake_size_acres = 0 /\ require_coordinates = FALSE
    /\ primary_file = [exists |-> FALSE, rows |-> <<>>]
    /\ metadata_file = [state |-> "missing", rows |-> <<>>]
    /\ catch_file = [state |-> "missing", rows |-> <<>>]
    /\ length_file = [state |-> "missing", rows |-> <<>>]

\* One run of the script, lines 24-156.  The map m and its marker cluster
\* are made anew (lines 78-93); st.rerun() ends the run where it is called.
ScriptRun ==
    /\ script = "viewer" /\ pc = "rerun"
    /\ LET filtered == filtered_df(call.area_range)
           total_lakes == Len(filtered)
           batch_start == session_state.start_idx
           batch_end == IF batch_start + BATCH_SIZE < total_lakes
                        THEN batch_start + BATCH_SIZE ELSE total_lakes
           loads == ~session_state.loading_complete /\ batch_start < total_lakes
           m == IF loads THEN {filtered[j] : j \in (batch_start + 1)..batch_end} ELSE {}
       IN  IF session_state.last_clicked # <<>>
              /\ session_state.last_clicked[1] >= total_lakes
           THEN \* line 67: filtered_df.iloc[...] raises IndexError
                /\ pc' = "raised"
                /\ ret' = [shown |-> FALSE, markers |-> {}]
                /\ UNCHANGED session_state
           ELSE IF loads
           THEN \* lines 107-136
                /\ session_state' = [session_state EXCEPT
                                        !.start_idx = batch_end,
                                        !.loading_complete = (batch_end >= total_lakes)]
                /\ pc' = "rerun"
                /\ UNCHANGED ret
           ELSE \* line 139, then lines 142-156
                IF call.last_clicked = <<>>
                THEN /\ ret' = [shown |-> TRUE, markers |-> m]
                     /\ pc' = "idle"
                     /\ UNCHANGED session_state
                ELSE IF total_lakes = 0
                THEN \* argmin of an empty sequence raises ValueError
                     /\ ret' = [shown |-> TRUE, markers |-> m]
                     /\ pc' = "raised"
                     /\ UNCHANGED session_state
                ELSE LET closest_lake_idx == ClosestLakeIdx(filtered, call.last_clicked[1])
                     IN  /\ ret' = [shown |-> TRUE, markers |-> m]
                         /\ IF session_state.last_clicked # <<closest_lake_idx>>
                            THEN /\ session_state' = [session_state EXCEPT
                                                        !.last_clicked = <<closest_lake_idx>>]
                                 /\ pc' = "rerun"
                            ELSE pc' = "idle" /\ UNCHANGED session_state
    /\ UNCHANGED <<view_frame, call>>

\* lines 46-51: the user moves the area slider, at any moment
SliderMoved ==
    /\ script = "viewer" /\ call.interactions < MaxInteractions
    /\ \E low \in SliderStops, high \in SliderStops :
         /\ low <= high /\ <<low, high>> # call.area_range
         /\ call' = [call EXCEPT !.area_range = <<low, high>>, !.interactions = @ + 1]
    /\ pc' = "rerun"
    /\ UNCHANGED <<view_frame, ret, session_state>>

\* line 139: the user clicks on the displayed map
MapClicked ==
    /\ script = "viewer" /\ pc = "idle" /\ ret.shown
    /\ call.interactions < MaxInteractions
    /\ \E clicked \in {1, 70, MaxViewerLakes} :
         /\ <<clicked>> # call.last_clicked
         /\ call' = [call EXCEPT !.last_clicked = <<clicked>>, !.interactions = @ + 1]
    /\ pc' = "rerun"
    /\ UNCHANGED <<view_frame, ret, session_state>>

SpecViewer == InitViewer /\ [][ScriptRun \/ SliderMoved \/ MapClicked]_vars

\* Streamlit runs the script whenever a rerun is pending; the user touches
\* the page a bounded number of times.
SpecViewerFair == SpecViewer /\ WF_vars(ScriptRun)

\* C29: whatever the filtered set, the reruns eventually set
\* loading_complete; a run of the script advances start_idx by at most
\* BATCH_SIZE and leaves it no greater than the number of filtered lakes.
C29_LoadingCompletes ==
    /\ <>(session_state.loading_complete)
    /\ [][call' = call =>
             /\ session_state.start_idx' <= session_state.start_idx + BATCH_SIZE
             /\ session_state.start_idx' <= Len(filtered_df(call.area_range))]_vars

\* C30: once loading_complete is set, the map on display carries a marker
\* for every lake of the filtered set.
C30_AllMarkersDisplayed ==
    script = "viewer" /\ session_state.loading_complete /\ ret.shown =>
        {filtered_df(call.area_range)[j] : j \in 1..Len(filtered_df(call.area_range))}
            \subseteq ret.markers

====
